---- MODULE Spec2Model ----
(***************************************************************************)
(* A model of go-bitcoin: the script engine (internal/script), the mempool *)
(* (internal/mempool), the peer node (internal/network/node.go) and the    *)
(* transaction authenticator (internal/transactions).                      *)
(*                                                                         *)
(* Go integers wider than TLC's are kept as little-endian byte sequences   *)
(* of their width (8 bytes for int64/uint64, 4 for uint32), so that        *)
(* wrap-around is the machine's.                                           *)
(***************************************************************************)
EXTENDS Integers, Sequences, FiniteSets, TLC

VARIABLES
    se,     \* the ScriptEngine of one Script.Evaluate call
    txs,    \* Mempool.txs: the txids the map holds
    mu,     \* Mempool.mu: 0 when unlocked, else the goroutine holding it
    callers, \* per goroutine calling the Mempool: its method, argument, position
    sn,     \* the SimpleNode: its channels, WaitGroup and handler table
    conn,   \* SimpleNode.conn: the TCP connection and the peer behind it
    gor,    \* the goroutines of a node and of its caller: their positions
    txn,    \* one Transaction: its inputs, outputs and cached hashes
    txret,  \* what the last operation on the Transaction returned
    recon,  \* a compact block message and what ReconstructBlock returned for it
    call    \* one call of a parser, serializer or calculator: arguments, result

vars == <<se, txs, mu, callers, sn, conn, gor, txn, txret, recon, call>>

seVars == <<se>>

mpVars == <<txs, mu, callers>>

ndVars == <<sn, conn, gor>>

txVars == <<txn, txret>>

cbVars == <<recon>>

fnVars == <<call>>

-----------------------------------------------------------------------------
(* Bounds of the model *)

MaxScriptLen == 3

MaxBranchLen == 5

NumCallers == 2

NumTxids == 2

MaxPeerMsgs == 2

MaxInputs == 2

MaxOutputs == 2

MaxAssigns == 1

MaxBlockTxns == 3

MaxLeaves == 4
\* public keys and signatures pushed for OP_CHECKMULTISIG
MaxKeys == 3
MaxSigs == 2
\* commands beyond which Execute is not followed further
MaxCommands == 16

-----------------------------------------------------------------------------
(* Fixed-width machine integers as little-endian byte sequences *)

\* the w-byte little-endian form of a natural number k < 2^31
LEOf(k, w) ==
    [i \in 1..w |-> IF i = 1 THEN k % 256
                    ELSE IF i = 2 THEN (k \div 256) % 256
                    ELSE IF i = 3 THEN (k \div 65536) % 256
                    ELSE IF i = 4 THEN (k \div 16777216) % 256
                    ELSE 0]

\* a + b modulo 2^(8w), for two w-byte values
LEAdd(a, b) ==
    LET w == Len(a)
        carry[i \in 0..w] ==
            IF i = 0 THEN 0 ELSE (a[i] + b[i] + carry[i-1]) \div 256
    IN  [i \in 1..w |-> (a[i] + b[i] + carry[i-1]) % 256]

\* -a modulo 2^(8w) (two's complement)
LENeg(a) == LEAdd([i \in 1..Len(a) |-> 255 - a[i]], LEOf(1, Len(a)))

\* a * b modulo 2^(8w)
LEMul(a, b) ==
    LET w == Len(a)
        col[k \in 1..w] ==
            LET s[i \in 0..k] == IF i = 0 THEN 0 ELSE s[i-1] + a[i] * b[k + 1 - i]
            IN  s[k]
        tot[k \in 0..w] == IF k = 0 THEN 0 ELSE col[k] + (tot[k-1] \div 256)
    IN  [k \in 1..w |-> tot[k] % 256]

\* a < b as unsigned values of the same width
LELess(a, b) ==
    \E i \in 1..Len(a) : a[i] < b[i] /\ \A j \in (i+1)..Len(a) : a[j] = b[j]

\* the sign of a two's-complement value
IsNegative(a) == a[Len(a)] >= 128

\* a < b as signed values of the same width
SLess(a, b) ==
    IF IsNegative(a) # IsNegative(b) THEN IsNegative(a) ELSE LELess(a, b)

\* the natural number a small non-negative value stands for (a < 2^23)
SmallVal(a) == a[1] + 256 * a[2] + 65536 * a[3]

-----------------------------------------------------------------------------
(* internal/script: numbers, commands and script parsing *)

OP_O == 0
OP_PUSHDATA1 == 76
OP_PUSHDATA2 == 77
OP_PUSHDATA4 == 78
OP_1 == 81
OP_16 == 96
OP_IF == 99
OP_NOTIF == 100
OP_ELSE == 103
OP_ENDIF == 104
OP_VERIFY == 105
OP_TOALSTACK == 107
OP_FROMALTSTACK == 108
OP_2DROP == 109
OP_2DUP == 110
OP_DROP == 117
OP_DUP == 118
OP_SWAP == 124
OP_EQUAL == 135
OP_EQUALVERIFY == 136
OP_NOT == 145
OP_ADD == 147
OP_SUB == 148
OP_MUL == 149
OP_SHA1 == 167
OP_HASH160 == 169
OP_HASH256 == 170
OP_CHECKSIG == 172
OP_CHECKSIGVERIFY == 173
OP_CHECKMULTISIG == 174
OP_CHECKLOCKTIMEVERIFY == 177
OP_CHECKSEQUENCEVERIFY == 178

\* ScriptCommand{Opcode: o, IsData: false}
OpCmd(o) == [Opcode |-> o, Data |-> <<>>, IsData |-> FALSE]

\* ScriptCommand{Data: d, IsData: true}
DataCmd(d) == [Opcode |-> 0, Data |-> d, IsData |-> TRUE]

\* DecodeNum: Script's little-endian sign-magnitude bytes to an int64.  The
\* loop shifts the bytes in from the last to the first, so bytes beyond the
\* eighth fall off the top of the 64-bit accumulator.
DecodeNum(data) ==
    IF Len(data) = 0 THEN LEOf(0, 8)
    ELSE LET n == Len(data)
             negative == data[n] >= 128
             result == [i \in 1..8 |-> IF i > n THEN 0
                                       ELSE IF i = n THEN data[i] % 128
                                       ELSE data[i]]
         IN  IF negative THEN LENeg(result) ELSE result

\* EncodeNum: an int64 to Script's bytes.  ok is FALSE where the Go code
\* indexes result[len(result)-1] on an empty result (a run-time panic).
EncodeNum(n) ==
    IF n = LEOf(0, 8) THEN [ok |-> TRUE, bytes |-> <<>>]
    ELSE LET negative == IsNegative(n)
             absN == IF negative THEN LENeg(n) ELSE n
             \* for absN > 0 { append(byte(absN & 0xff)); absN >>= 8 }
             nz == {i \in 1..8 : absN[i] # 0}
             top == IF IsNegative(absN) \/ nz = {} THEN 0
                    ELSE CHOOSE i \in nz : \A j \in nz : j <= i
             result == SubSeq(absN, 1, top)
         IN  IF top = 0 THEN [ok |-> FALSE, bytes |-> <<>>]
             ELSE IF result[top] >= 128
                  THEN [ok |-> TRUE,
                        bytes |-> Append(result, IF negative THEN 128 ELSE 0)]
             ELSE IF negative
                  THEN [ok |-> TRUE, bytes |-> [result EXCEPT ![top] = @ + 128]]
             ELSE [ok |-> TRUE, bytes |-> result]

\* isAllZeros
isAllZeros(data) == \A i \in 1..Len(data) : data[i] = 0

\* The digests (SHA-1, SHA-256, RIPEMD-160 compositions) are library code:
\* a deterministic function of the input with the digest's length.
Digest(data, n, salt) ==
    LET s[j \in 0..Len(data)] ==
            IF j = 0 THEN Len(data) + salt
            ELSE (s[j-1] * 31 + data[j] + 1) % 65521
        h == s[Len(data)]
    IN  [i \in 1..n |-> (h + (h \div 256) * i + 7 * i) % 256]

\* encoding.Hash160 (RIPEMD-160 of SHA-256)
Hash160(data) == Digest(data, 20, 160)

\* sha256.Sum256
Sha256(data) == Digest(data, 32, 2)

\* ParseScript on the bytes of a script whose varint length prefix equals
\* Len(b) (P2sh and P2wsh prepend it themselves).  strict is TRUE for a
\* bytes.Reader, whose Read reports io.EOF at the end even for an empty
\* buffer, and FALSE for a bytes.Buffer.
RECURSIVE ParseFrom(_, _, _, _)
ParseFrom(b, pos, cmds, strict) ==
    IF pos > Len(b) THEN [ok |-> TRUE, cmds |-> cmds]
    ELSE LET cur == b[pos]
             left == Len(b) - pos
             \* read hdr length bytes, then dataLen bytes of data
             Push(hdr, dataLen) ==
                 IF left < hdr + dataLen \/ (dataLen = 0 /\ left = hdr /\ strict)
                 THEN [ok |-> FALSE, cmds |-> <<>>]
                 ELSE ParseFrom(b, pos + 1 + hdr + dataLen,
                        Append(cmds, DataCmd(SubSeq(b, pos + 1 + hdr, pos + hdr + dataLen))),
                        strict)
         IN  IF cur >= 1 /\ cur <= 75 THEN Push(0, cur)
             ELSE IF cur = OP_PUSHDATA1
                  THEN IF left < 1 THEN [ok |-> FALSE, cmds |-> <<>>]
                       ELSE Push(1, b[pos + 1])
             ELSE IF cur = OP_PUSHDATA2
                  THEN IF left < 2 THEN [ok |-> FALSE, cmds |-> <<>>]
                       ELSE Push(2, b[pos + 1] + 256 * b[pos + 2])
             ELSE IF cur = OP_PUSHDATA4
                  THEN IF left < 4 \/ b[pos + 4] >= 128 THEN [ok |-> FALSE, cmds |-> <<>>]
                       ELSE Push(4, b[pos + 1] + 256 * b[pos + 2] + 65536 * b[pos + 3]
                                    + 16777216 * b[pos + 4])
             ELSE ParseFrom(b, pos + 1, Append(cmds, OpCmd(cur)), strict)

ParseScript(b, strict) == ParseFrom(b, 1, <<>>, strict)

\* P2pkhScript
P2pkhScript(h160) ==
    <<OpCmd(OP_DUP), OpCmd(OP_HASH160), DataCmd(h160),
      OpCmd(OP_EQUALVERIFY), OpCmd(OP_CHECKSIG)>>

-----------------------------------------------------------------------------
(* internal/script: the ScriptEngine.  An engine value e is a record of the
   ScriptEngine fields plus res: "run" while Execute is in its loop, "true"
   or "false" for the verdict it returned, "panic" for a run-time panic.
   An opcode method that returns false yields res = "false". *)

Fail(e) == [e EXCEPT !.res = "false"]

Panic(e) == [e EXCEPT !.res = "panic"]

\* pushData / push: only the Data of a stack element is ever read
pushData(e, d) == [e EXCEPT !.stack = Append(@, d)]

\* the element pop and peek return
peek(e) == e.stack[Len(e.stack)]

\* the engine after a successful pop
pop(e) == [e EXCEPT !.stack = SubSeq(@, 1, Len(@) - 1)]

\* an opcode that pops one element and pushes f of it
PopPush1(e, d) == IF Len(e.stack) < 1 THEN Fail(e) ELSE pushData(pop(e), d)

\* checkSigHelper: strip the sighash byte, parse the DER signature and the
\* SEC public key, verify.  ECDSA is abstracted: a two-byte signature
\* <<0x30, k>> verifies against the two-byte key <<0x02, k>> and no other.
checkSigHelper(pubkey, sig) ==
    /\ Len(sig) # 0
    /\ LET derSig == SubSeq(sig, 1, Len(sig) - 1)
       IN  /\ Len(derSig) = 2 /\ derSig[1] = 48
           /\ Len(pubkey) = 2 /\ pubkey[1] = 2
           /\ derSig[2] = pubkey[2]

OpDup(e) == IF Len(e.stack) < 1 THEN Fail(e) ELSE pushData(e, peek(e))

Op2Dup(e) ==
    IF Len(e.stack) < 2 THEN Fail(e)
    ELSE pushData(pushData(e, e.stack[Len(e.stack) - 1]), e.stack[Len(e.stack)])

OpToAltStack(e) ==
    IF Len(e.stack) < 1 THEN Fail(e)
    ELSE [pop(e) EXCEPT !.altstack = Append(@, peek(e))]

OpFromAltStack(e) ==
    IF Len(e.altstack) = 0 THEN Fail(e)
    ELSE pushData([e EXCEPT !.altstack = SubSeq(@, 1, Len(@) - 1)],
                  e.altstack[Len(e.altstack)])

OpDrop(e) == IF Len(e.stack) < 1 THEN Fail(e) ELSE pop(e)

Op2Drop(e) == LET e1 == OpDrop(e) IN IF e1.res # "run" THEN e1 ELSE OpDrop(e1)

OpVerify(e) ==
    IF Len(e.stack) < 1 THEN Fail(e)
    ELSE IF isAllZeros(peek(e)) THEN Fail(pop(e)) ELSE pop(e)

OpEqual(e) ==
    IF Len(e.stack) < 1 THEN Fail(e)
    ELSE IF Len(e.stack) < 2 THEN Fail(pop(e))
    ELSE pushData(pop(pop(e)),
                  IF peek(e) = peek(pop(e)) THEN <<1>> ELSE <<0>>)

OpEqualVerify(e) == LET e1 == OpEqual(e) IN IF e1.res # "run" THEN e1 ELSE OpVerify(e1)

OpSwap(e) ==
    IF Len(e.stack) < 1 THEN Fail(e)
    ELSE IF Len(e.stack) < 2 THEN Fail(pop(e))
    ELSE pushData(pushData(pop(pop(e)), peek(e)), peek(pop(e)))

\* OpAdd, OpSub, OpMul: a is popped first, then b; the result of the int64
\* operation goes through EncodeNum, whose index panic is the engine's
Arith(e, op) ==
    IF Len(e.stack) < 1 THEN Fail(e)
    ELSE IF Len(e.stack) < 2 THEN Fail(pop(e))
    ELSE LET numA == DecodeNum(peek(e))
             numB == DecodeNum(peek(pop(e)))
             result == EncodeNum(CASE op = OP_ADD -> LEAdd(numA, numB)
                                   [] op = OP_SUB -> LEAdd(numA, LENeg(numB))
                                   [] op = OP_MUL -> LEMul(numA, numB))
         IN  IF result.ok THEN pushData(pop(pop(e)), result.bytes)
             ELSE Panic(pop(pop(e)))

OpNot(e) ==
    IF Len(e.stack) < 1 THEN Fail(e)
    ELSE pushData(pop(e), IF DecodeNum(peek(e)) = LEOf(0, 8)
                          THEN EncodeNum(LEOf(1, 8)).bytes
                          ELSE EncodeNum(LEOf(0, 8)).bytes)

OpCheckSig(e) ==
    IF Len(e.stack) < 1 THEN Fail(e)
    ELSE IF Len(e.stack) < 2 THEN Fail(pop(e))
    ELSE pushData(pop(pop(e)),
                  IF checkSigHelper(peek(e), peek(pop(e))) THEN <<1>> ELSE <<>>)

OpCheckSigVerify(e) ==
    LET e1 == OpCheckSig(e) IN IF e1.res # "run" THEN e1 ELSE OpVerify(e1)

\* skipToElseOrEndif: the pc after the scan (the scan reads Opcode alone,
\* which is 0 for a data command)
RECURSIVE skipFrom(_, _, _)
skipFrom(cmds, pc, depth) ==
    IF pc >= Len(cmds) THEN pc
    ELSE LET op == cmds[pc + 1].Opcode
         IN  IF op = OP_IF \/ op = OP_NOTIF THEN skipFrom(cmds, pc + 1, depth + 1)
             ELSE IF op = OP_ENDIF
                  THEN IF depth - 1 = 0 THEN pc + 1
                       ELSE skipFrom(cmds, pc + 1, depth - 1)
             ELSE IF op = OP_ELSE /\ depth = 1 THEN pc + 1
             ELSE skipFrom(cmds, pc + 1, depth)

skipToElseOrEndif(e) == [e EXCEPT !.pc = skipFrom(e.commands, e.pc, 1)]

OpIf(e) ==
    IF Len(e.stack) < 1 THEN Fail(e)
    ELSE IF isAllZeros(peek(e)) THEN skipToElseOrEndif(pop(e)) ELSE pop(e)

OpNotIf(e) ==
    IF Len(e.stack) < 1 THEN Fail(e)
    ELSE IF ~isAllZeros(peek(e)) THEN skipToElseOrEndif(pop(e)) ELSE pop(e)

OpHash160(e) == PopPush1(e, Hash160(peek(e)))

\* make([]ScriptCommand, 0, n) panics when n is negative or the capacity is
\* beyond what can be allocated (n >= 2^48 certainly is)
MakeSlicePanics(n) == IsNegative(n) \/ n[7] # 0 \/ n[8] # 0

\* a loop that counts the signatures some public key verifies, in any order
AnyKeyWindow(secPubkeys, derSignatures) ==
    Cardinality({s \in DOMAIN derSignatures :
                   \E p \in DOMAIN secPubkeys :
                       checkSigHelper(secPubkeys[p], derSignatures[s])})

\* the loop "for sigIndex < m && pubkeyIndex < n": the number of signatures
\* matched once the public keys are used up or every signature is matched
SlidingWindow(secPubkeys, derSignatures) ==
    LET n == Len(secPubkeys)
        m == Len(derSignatures)
        sigIndex[p \in 0..n] ==
            IF p = 0 THEN 0
            ELSE IF sigIndex[p-1] < m
                    /\ checkSigHelper(secPubkeys[p], derSignatures[sigIndex[p-1] + 1])
                 THEN sigIndex[p-1] + 1
                 ELSE sigIndex[p-1]
    IN  sigIndex[n]

OpCheckMultiSig(e) ==
    IF Len(e.stack) < 1 THEN Fail(e)
    ELSE
    LET \* the k top elements of the stack, in the order they are popped
        PopN(x, k) == [i \in 1..k |-> x.stack[Len(x.stack) + 1 - i]]
        DropN(x, k) == [x EXCEPT !.stack = SubSeq(@, 1, Len(@) - k)]
        n == DecodeNum(peek(e))
        e1 == pop(e)
    IN
    IF SLess(LEOf(Len(e1.stack), 8), LEAdd(n, LEOf(1, 8))) THEN Fail(e1)
    ELSE IF MakeSlicePanics(n) THEN Panic(e1)
    ELSE
    LET secPubkeys == PopN(e1, SmallVal(n))
        e2 == DropN(e1, SmallVal(n))
    IN
    IF Len(e2.stack) < 1 THEN Fail(e2)
    ELSE
    LET m == DecodeNum(peek(e2))
        e3 == pop(e2)
    IN
    IF SLess(LEOf(Len(e3.stack), 8), LEAdd(m, LEOf(1, 8))) THEN Fail(e3)
    ELSE IF MakeSlicePanics(m) THEN Panic(e3)
    ELSE
    LET derSignatures == PopN(e3, SmallVal(m))
        e4 == DropN(e3, SmallVal(m))
    IN
    IF Len(e4.stack) < 1 THEN Fail(e4)
    ELSE pushData(pop(e4),
                  IF SlidingWindow(secPubkeys, derSignatures) = SmallVal(m)
                  THEN <<1>> ELSE <<0>>)

LOCKTIME_THRESHOLD == 500000000

\* int64(x) of a uint32
Widen(x) == [i \in 1..8 |-> IF i <= 4 THEN x[i] ELSE 0]

\* OP_CHECKLOCKTIMEVERIFY without the comparison of the two lock-time types
LocktimeVerifyAnyType(e) ==
    IF Len(e.stack) < 1 THEN Fail(e)
    ELSE IF IsNegative(DecodeNum(peek(e))) THEN Fail(e)
    ELSE IF e.sequence = <<255, 255, 255, 255>> THEN Fail(e)
    ELSE IF SLess(Widen(e.locktime), DecodeNum(peek(e))) THEN Fail(e)
    ELSE e

OpCheckLocktimeVerify(e) ==
    IF Len(e.stack) < 1 THEN Fail(e)
    ELSE
    LET stackLocktime == DecodeNum(peek(e))
        threshold == LEOf(LOCKTIME_THRESHOLD, 8)
        stackIsTimestamp == ~SLess(stackLocktime, threshold)
        txIsTimestamp == ~LELess(e.locktime, LEOf(LOCKTIME_THRESHOLD, 4))
    IN
    IF IsNegative(stackLocktime) THEN Fail(e)
    ELSE IF e.sequence = <<255, 255, 255, 255>> THEN Fail(e)
    ELSE IF stackIsTimestamp # txIsTimestamp THEN Fail(e)
    ELSE IF SLess(Widen(e.locktime), stackLocktime) THEN Fail(e)
    ELSE e

\* OP_CHECKSEQUENCEVERIFY comparing the whole 32-bit values, not the low 16 bits
SequenceVerifyUnmasked(e) ==
    IF Len(e.stack) < 1 THEN Fail(e)
    ELSE
    LET s32 == SubSeq(DecodeNum(peek(e)), 1, 4) IN
    IF IsNegative(DecodeNum(peek(e))) THEN Fail(e)
    ELSE IF s32[4] >= 128 THEN e
    ELSE IF e.sequence[4] >= 128 THEN Fail(e)
    ELSE IF (s32[3] \div 64) % 2 # (e.sequence[3] \div 64) % 2 THEN Fail(e)
    ELSE IF LELess(e.sequence, s32) THEN Fail(e)
    ELSE e

OpCheckSequenceVerify(e) ==
    IF Len(e.stack) < 1 THEN Fail(e)
    ELSE
    LET stackSequence == DecodeNum(peek(e))
        \* uint32(stackSequence): the low four bytes
        s32 == SubSeq(stackSequence, 1, 4)
        \* SEQUENCE_LOCKTIME_TYPE_FLAG is bit 22: bit 6 of the third byte
        TypeFlag(x) == (x[3] \div 64) % 2
        \* SEQUENCE_LOCKTIME_MASK keeps the low 16 bits
        Masked(x) == x[1] + 256 * x[2]
    IN
    IF IsNegative(stackSequence) THEN Fail(e)
    ELSE IF s32[4] >= 128 THEN e
    ELSE IF e.sequence[4] >= 128 THEN Fail(e)
    ELSE IF TypeFlag(s32) # TypeFlag(e.sequence) THEN Fail(e)
    ELSE IF Masked(e.sequence) < Masked(s32) THEN Fail(e)
    ELSE e

ExecuteCommand(e, cmd) ==
    LET op == cmd.Opcode IN
    CASE op = OP_O -> pushData(e, <<>>)
      [] op = OP_DUP -> OpDup(e)
      [] op = OP_2DUP -> Op2Dup(e)
      [] op >= OP_1 /\ op <= OP_16 -> pushData(e, EncodeNum(LEOf(op - 80, 8)).bytes)
      [] op \in {OP_ADD, OP_SUB, OP_MUL} -> Arith(e, op)
      [] op = OP_SHA1 -> PopPush1(e, Digest(peek(e), 20, 1))
      [] op = OP_HASH256 -> PopPush1(e, Digest(peek(e), 32, 256))
      [] op = OP_HASH160 -> OpHash160(e)
      [] op = OP_TOALSTACK -> OpToAltStack(e)
      [] op = OP_FROMALTSTACK -> OpFromAltStack(e)
      [] op = OP_DROP -> OpDrop(e)
      [] op = OP_2DROP -> Op2Drop(e)
      [] op = OP_IF -> OpIf(e)
      [] op = OP_NOTIF -> OpNotIf(e)
      [] op = OP_CHECKSIG -> OpCheckSig(e)
      [] op = OP_CHECKMULTISIG -> OpCheckMultiSig(e)
      [] op = OP_CHECKSIGVERIFY -> OpCheckSigVerify(e)
      [] op = OP_NOT -> OpNot(e)
      [] op = OP_EQUAL -> OpEqual(e)
      [] op = OP_EQUALVERIFY -> OpEqualVerify(e)
      [] op = OP_VERIFY -> OpVerify(e)
      [] op = OP_SWAP -> OpSwap(e)
      [] op = OP_CHECKLOCKTIMEVERIFY -> OpCheckLocktimeVerify(e)
      [] op = OP_CHECKSEQUENCEVERIFY -> OpCheckSequenceVerify(e)
      [] OTHER -> Fail(e)

IsP2sh(triplet) ==
    /\ triplet[1].Opcode = OP_HASH160
    /\ Len(triplet[2].Data) = 20
    /\ triplet[3].Opcode = OP_EQUAL

\* a P2sh that appends the redeem script without comparing the hashes
P2shUnverified(e, redeemScript, hash) ==
    LET parsedRs == ParseScript(redeemScript, FALSE) IN
    IF ~parsedRs.ok THEN Fail(pop(e))
    ELSE [pop(e) EXCEPT !.commands = @ \o parsedRs.cmds]

\* P2sh: HASH160 the top element, push the template's hash, EQUALVERIFY,
\* then parse the copied redeem script and append its commands
P2sh(e, redeemScript, hash) ==
    LET e1 == OpHash160(e) IN
    IF e1.res # "run" THEN e1
    ELSE LET e2 == OpEqualVerify(pushData(e1, hash.Data)) IN
         IF e2.res # "run" THEN e2
         ELSE LET parsedRs == ParseScript(redeemScript, FALSE) IN
              IF ~parsedRs.ok THEN Fail(e2)
              ELSE [e2 EXCEPT !.commands = @ \o parsedRs.cmds]

P2wpkh(e, hash160) ==
    IF Len(e.witness) # 2 THEN Fail(e)
    ELSE [pushData(pushData(e, e.witness[1]), e.witness[2])
            EXCEPT !.commands = @ \o P2pkhScript(hash160)]

P2wsh(e, hash256) ==
    IF Len(e.witness) = 0 THEN Fail(e)
    ELSE
    LET witnessScript == e.witness[Len(e.witness)]
        pushed == [e EXCEPT !.stack = @ \o SubSeq(e.witness, 1, Len(e.witness) - 1)]
        parsed == ParseScript(witnessScript, TRUE)
    IN  IF Sha256(witnessScript) # hash256 THEN Fail(e)
        ELSE IF ~parsed.ok THEN Fail(pushed)
        ELSE [pushed EXCEPT !.commands = @ \o parsed.cmds]

\* One iteration of the loop of Execute
ExecuteStep(e) ==
    LET cmd == e.commands[e.pc + 1]
        e1 == [e EXCEPT !.pc = @ + 1]
    IN
    IF e1.pc + 2 <= Len(e1.commands) /\ IsP2sh(SubSeq(e1.commands, e1.pc, e1.pc + 2))
    THEN IF Len(e1.stack) < 1 THEN Fail(e1)
         ELSE LET e2 == P2sh(e1, peek(e1), e1.commands[e1.pc + 1])
              IN  IF e2.res # "run" THEN e2 ELSE [e2 EXCEPT !.pc = @ + 2]
    ELSE
    LET e2 == IF cmd.IsData THEN pushData(e1, cmd.Data) ELSE ExecuteCommand(e1, cmd)
        IsProgram(k) == /\ Len(e2.stack) = 2
                        /\ Len(e2.stack[1]) = 0
                        /\ Len(e2.stack[2]) = k
    IN  IF e2.res # "run" THEN e2
        ELSE IF IsProgram(20) THEN P2wpkh(pop(pop(e2)), peek(e2))
        ELSE IF IsProgram(32) THEN P2wsh(pop(pop(e2)), peek(e2))
        ELSE e2

\* verifyFinalStack: the verdict once the program counter is at the end
verifyFinalStack(e) ==
    IF Len(e.stack) < 1 THEN Fail(e)
    ELSE [pop(e) EXCEPT !.res = IF isAllZeros(peek(e)) THEN "false" ELSE "true"]

\* NewScriptEngine with the witness, locktime and sequence set
NewScriptEngine(commands, witness, locktime, sequence) ==
    [stack |-> <<>>, altstack |-> <<>>, commands |-> commands, pc |-> 0,
     witness |-> witness, locktime |-> locktime, sequence |-> sequence,
     res |-> "run"]

-----------------------------------------------------------------------------
(* Script.Evaluate: the engine runs a command list to its verdict *)

\* every command list of at most maxLen commands over an alphabet
Scripts(alphabet, maxLen) == UNION {[1..n -> alphabet] : n \in 0..maxLen}

\* commands that reach the number codec and the multisig counts: -1,
\* 2^63 - 1, small numbers, arithmetic, OP_CHECKMULTISIG
ArithAlphabet ==
    {DataCmd(<<129>>), DataCmd(<<255, 255, 255, 255, 255, 255, 255, 127>>),
     DataCmd(<<2, 7>>), DataCmd(<<48, 7, 1>>),
     OpCmd(OP_O), OpCmd(OP_1), OpCmd(OP_ADD), OpCmd(OP_SUB), OpCmd(OP_MUL),
     OpCmd(OP_NOT), OpCmd(OP_CHECKMULTISIG)}

\* the state of the parts of the program a specification leaves alone
IdleMempool ==
    /\ txs = {}
    /\ mu = 0
    /\ callers = [t \in 1..NumCallers |-> [pc |-> "idle", ret |-> {}]]

\* no SimpleNode has been constructed
IdleNode == sn = <<>> /\ conn = <<>> /\ gor = <<>>

\* no Transaction has been made
IdleTx == txn = <<>> /\ txret = <<>>

\* no compact block message has arrived
IdleRecon == recon = <<>>

\* no call is under way
IdleCall == call = <<>>

InitScript ==
    /\ \E cmds \in Scripts(ArithAlphabet, MaxScriptLen) :
          se = NewScriptEngine(cmds, <<>>, LEOf(0, 4), LEOf(0, 4))
    /\ IdleMempool
    /\ IdleNode
    /\ IdleTx
    /\ IdleRecon
    /\ IdleCall

\* Execute, one loop iteration: "for se.pc < len(se.commands)"
Execute ==
    /\ se.res = "run"
    /\ se.pc < Len(se.commands)
    /\ Len(se.commands) <= MaxCommands
    /\ se' = ExecuteStep(se)
    /\ UNCHANGED <<mpVars, ndVars, txVars, cbVars, fnVars>>

\* Execute, leaving the loop: "return se.verifyFinalStack()"
ExecuteReturn ==
    /\ se.res = "run"
    /\ se.pc >= Len(se.commands)
    /\ se' = verifyFinalStack(se)
    /\ UNCHANGED <<mpVars, ndVars, txVars, cbVars, fnVars>>

NextScript == Execute \/ ExecuteReturn

SpecScript == InitScript /\ [][NextScript]_vars

\* C1: ScriptEngine.Execute always returns a boolean verdict; no opcode or
\* template transition raises a run-time panic, whatever the key or signature
\* count OP_CHECKMULTISIG pops and whatever the arithmetic operands are.
C1_NoPanic == se.res # "panic"

-----------------------------------------------------------------------------
(* Conditional scripts *)

BranchAlphabet ==
    {OpCmd(OP_O), OpCmd(OP_1), OpCmd(OP_IF), OpCmd(OP_NOTIF), OpCmd(OP_ELSE),
     OpCmd(OP_ENDIF)}

InitBranch ==
    /\ \E cmds \in Scripts(BranchAlphabet, MaxBranchLen) :
          se = NewScriptEngine(cmds, <<>>, LEOf(0, 4), LEOf(0, 4))
    /\ IdleMempool
    /\ IdleNode
    /\ IdleTx
    /\ IdleRecon
    /\ IdleCall

SpecBranch == InitBranch /\ [][NextScript]_vars

-----------------------------------------------------------------------------
(* Lock-time and multi-signature scripts: an engine with locktime and sequence
   set runs a pushed number and OP_CHECKLOCKTIMEVERIFY or
   OP_CHECKSEQUENCEVERIFY, or the pushes of a multi-signature script and
   OP_CHECKMULTISIG.  The counts pushed need not fit the keys and signatures
   pushed. *)
InitOps ==
    /\ \/ \E top \in {<<>>, <<DataCmd(<<>>)>>, <<DataCmd(<<5>>)>>,
                      <<DataCmd(<<100>>)>>, <<DataCmd(<<129>>)>>,
                      <<DataCmd(<<5, 0, 64>>)>>, <<DataCmd(<<5, 0, 1>>)>>,
                      <<DataCmd(<<0, 101, 205, 29>>)>>,
                      <<DataCmd(<<0, 70, 195, 35>>)>>,
                      <<DataCmd(<<0, 0, 0, 128, 0>>)>>,
                      <<DataCmd(<<255, 255, 255, 255, 255, 255, 255, 127>>)>>},
             op \in {OP_CHECKLOCKTIMEVERIFY, OP_CHECKSEQUENCEVERIFY},
             locktime \in {LEOf(0, 4), LEOf(100, 4), LEOf(LOCKTIME_THRESHOLD - 1, 4),
                           LEOf(LOCKTIME_THRESHOLD, 4), <<0, 70, 195, 35>>,
                           <<255, 255, 255, 255>>},
             sequence \in {LEOf(0, 4), LEOf(4, 4), LEOf(5, 4), <<5, 0, 64, 0>>,
                           <<5, 0, 0, 128>>, <<4, 0, 1, 0>>,
                           <<255, 255, 255, 255>>} :
             se = NewScriptEngine(top \o <<OpCmd(op)>>, <<>>, locktime, sequence)
       \/ \E extra \in {<<>>, <<DataCmd(<<>>)>>},
             sigs \in Scripts({DataCmd(<<48, 7, 1>>), DataCmd(<<48, 8, 1>>)}, MaxSigs),
             m \in 0..MaxSigs,
             keys \in Scripts({DataCmd(<<2, 7>>), DataCmd(<<2, 8>>)}, MaxKeys),
             n \in 0..MaxKeys :
             se = NewScriptEngine(
                    extra \o sigs \o <<DataCmd(IF m = 0 THEN <<>> ELSE <<m>>)>>
                          \o keys \o <<DataCmd(IF n = 0 THEN <<>> ELSE <<n>>)>>
                          \o <<OpCmd(OP_CHECKMULTISIG)>>,
                    <<>>, LEOf(0, 4), LEOf(0, 4))
    /\ IdleMempool
    /\ IdleNode
    /\ IdleTx
    /\ IdleRecon
    /\ IdleCall

SpecOps == InitOps /\ [][NextScript]_vars

-----------------------------------------------------------------------------
(* Script templates: a script that ends in the P2SH pattern, with or without
   a pushed redeem script, or a witness program OP_0 <20 or 32 bytes> run by
   an engine that holds a witness.  The redeem and witness scripts are
   OP_1, OP_DUP OP_DROP, a push that runs past the end, and the empty script. *)
InitTemplates ==
    /\ \/ \E redeem \in {<<81>>, <<118, 117>>, <<2, 7>>, <<>>},
             pushed \in {<<81>>, <<118, 117>>, <<2, 7>>, <<>>},
             onStack \in BOOLEAN :
             se = NewScriptEngine(
                    (IF onStack THEN <<DataCmd(pushed)>> ELSE <<>>)
                       \o <<OpCmd(OP_HASH160), DataCmd(Hash160(redeem)),
                            OpCmd(OP_EQUAL)>>,
                    <<>>, LEOf(0, 4), LEOf(0, 4))
       \/ \E script \in {<<81>>, <<118, 117>>, <<2, 7>>},
             program \in {<<81>>, <<118, 117>>, <<2, 7>>, <<48, 7, 1>>},
             short \in BOOLEAN :
          \E witness \in {<<>>, <<script>>, <<<<1>>, script>>,
                          <<<<>>, Sha256(script), script>>,
                          <<<<48, 7, 1>>, <<2, 7>>>>} :
             se = NewScriptEngine(
                    <<OpCmd(OP_O),
                      DataCmd(IF short THEN Hash160(program) ELSE Sha256(program))>>,
                    witness, LEOf(0, 4), LEOf(0, 4))
    /\ IdleMempool
    /\ IdleNode
    /\ IdleTx
    /\ IdleRecon
    /\ IdleCall

SpecTemplates == InitTemplates /\ [][NextScript]_vars

\* Execute runs on: its loop has no other exit than the two of NextScript
SpecTemplatesFair == SpecTemplates /\ WF_vars(NextScript)

\* a command list whose OP_IF/OP_NOTIF, OP_ELSE and OP_ENDIF nest correctly;
\* open holds, for every block still open, whether its OP_ELSE was seen
RECURSIVE Nested(_, _, _)
Nested(cmds, i, open) ==
    IF i > Len(cmds) THEN open = <<>>
    ELSE LET op == cmds[i].Opcode IN
         IF op = OP_IF \/ op = OP_NOTIF THEN Nested(cmds, i + 1, <<FALSE>> \o open)
         ELSE IF op = OP_ELSE
              THEN /\ open # <<>> /\ ~Head(open)
                   /\ Nested(cmds, i + 1, <<TRUE>> \o Tail(open))
         ELSE IF op = OP_ENDIF
              THEN open # <<>> /\ Nested(cmds, i + 1, Tail(open))
         ELSE Nested(cmds, i + 1, open)

WellNested(cmds) == Nested(cmds, 1, <<>>)

\* the number of commands up to and including the one that closes, at the
\* given depth, the block entered before position i: its OP_ENDIF, or its
\* OP_ELSE when toElse
RECURSIVE Closing(_, _, _, _)
Closing(cmds, i, depth, toElse) ==
    IF i > Len(cmds) THEN Len(cmds)
    ELSE LET op == cmds[i].Opcode IN
         IF op = OP_IF \/ op = OP_NOTIF THEN Closing(cmds, i + 1, depth + 1, toElse)
         ELSE IF op = OP_ENDIF
              THEN IF depth = 1 THEN i ELSE Closing(cmds, i + 1, depth - 1, toElse)
         ELSE IF op = OP_ELSE /\ depth = 1 /\ toElse THEN i
         ELSE Closing(cmds, i + 1, depth, toElse)

\* C8: in a correctly nested script, OP_IF/OP_NOTIF continue with the branch
\* the popped condition selects (the first command of the block, or the
\* command after the matching OP_ELSE or OP_ENDIF); an OP_ELSE met while
\* executing ends the selected branch and continues after the matching
\* OP_ENDIF; an OP_ENDIF is passed over; none of the markers fails the script.
C8_BranchSelected ==
    [][ (se.res = "run" /\ se.pc < Len(se.commands) /\ WellNested(se.commands)) =>
        LET op == se.commands[se.pc + 1].Opcode
            taken == (op = OP_IF) # isAllZeros(peek(se))
        IN  /\ ((op = OP_IF \/ op = OP_NOTIF) /\ Len(se.stack) >= 1) =>
                  /\ se'.res = "run"
                  /\ se'.stack = SubSeq(se.stack, 1, Len(se.stack) - 1)
                  /\ se'.pc = IF taken THEN se.pc + 1
                              ELSE Closing(se.commands, se.pc + 2, 1, TRUE)
            /\ op = OP_ELSE =>
                  /\ se'.res = "run"
                  /\ se'.stack = se.stack
                  /\ se'.pc = Closing(se.commands, se.pc + 2, 1, FALSE)
            /\ op = OP_ENDIF =>
                  /\ se'.res = "run"
                  /\ se'.stack = se.stack
                  /\ se'.pc = se.pc + 1
      ]_vars

-----------------------------------------------------------------------------
(* internal/mempool: goroutines calling one Mempool.  A caller's pc names
   the statement it is at; the statements that touch m.txs are "add_store",
   "get_load", "remove_delete", "all_len", "all_range" and "match_range". *)

IdleScript == se = NewScriptEngine(<<>>, <<>>, LEOf(0, 4), LEOf(0, 4))

InitMempool ==
    IdleMempool /\ IdleScript /\ IdleNode /\ IdleTx /\ IdleRecon /\ IdleCall

\* CalculateShortID of a transaction's hash under the keys of one block:
\* SipHash is library-like code, stood for by a keyed function that can collide
CalculateShortID(txid) == (3 * txid + 1) % 4

\* a goroutine enters Add, Get, Remove, All or MatchShortIDs; what precedes
\* the first statement touching the mutex or the map (tx.Hash(), the
\* requested set) touches neither
Call(t) ==
    /\ callers[t].pc = "idle"
    /\ \/ \E id \in 1..NumTxids, m \in {"add", "get", "remove"} :
            callers' = [callers EXCEPT ![t] = [pc |-> m \o "_lock", txid |-> id]]
       \/ callers' = [callers EXCEPT ![t] = [pc |-> "all_len"]]
       \/ \E req \in SUBSET (0..3) :
            callers' = [callers EXCEPT ![t] = [pc |-> "match_lock", requested |-> req]]
    /\ UNCHANGED <<txs, mu, seVars, ndVars, txVars, cbVars, fnVars>>

\* All: "make([]*Transaction, 0, len(m.txs))", before m.mu.Lock().  A read
\* of the map's length that races with a store or delete is a data race:
\* any length the map can have may be observed.
AllLen(t) ==
    /\ callers[t].pc = "all_len"
    /\ \E n \in 0..NumTxids :
         /\ (\A w \in 1..NumCallers :
                callers[w].pc \notin {"add_store", "remove_delete"})
              => n = Cardinality(txs)
         /\ callers' = [callers EXCEPT ![t] = [pc |-> "all_lock", capacity |-> n]]
    /\ UNCHANGED <<txs, mu, seVars, ndVars, txVars, cbVars, fnVars>>

\* m.mu.Lock()
Lock(t) ==
    /\ mu = 0
    /\ mu' = t
    /\ LET next == [add_lock |-> "add_store", get_lock |-> "get_load",
                    remove_lock |-> "remove_delete", all_lock |-> "all_range",
                    match_lock |-> "match_range"]
       IN  /\ callers[t].pc \in DOMAIN next
           /\ callers' = [callers EXCEPT ![t].pc = next[callers[t].pc]]
    /\ UNCHANGED <<txs, seVars, ndVars, txVars, cbVars, fnVars>>

\* Add: m.txs[txid] = tx; m.mu.Unlock()
AddStore(t) ==
    /\ callers[t].pc = "add_store"
    /\ txs' = txs \cup {callers[t].txid}
    /\ mu' = 0
    /\ callers' = [callers EXCEPT ![t] = [pc |-> "idle", ret |-> {}]]
    /\ UNCHANGED <<seVars, ndVars, txVars, cbVars, fnVars>>

\* Get: tx, exists := m.txs[txid]; m.mu.Unlock()
GetLoad(t) ==
    /\ callers[t].pc = "get_load"
    /\ mu' = 0
    /\ callers' = [callers EXCEPT ![t] = [pc |-> "idle", ret |-> txs \cap {callers[t].txid}]]
    /\ UNCHANGED <<txs, seVars, ndVars, txVars, cbVars, fnVars>>

\* Remove: delete(m.txs, txid); m.mu.Unlock()
RemoveDelete(t) ==
    /\ callers[t].pc = "remove_delete"
    /\ txs' = txs \ {callers[t].txid}
    /\ mu' = 0
    /\ callers' = [callers EXCEPT ![t] = [pc |-> "idle", ret |-> {}]]
    /\ UNCHANGED <<seVars, ndVars, txVars, cbVars, fnVars>>

\* All: the range over m.txs; m.mu.Unlock()
AllRange(t) ==
    /\ callers[t].pc = "all_range"
    /\ mu' = 0
    /\ callers' = [callers EXCEPT ![t] = [pc |-> "idle", ret |-> txs]]
    /\ UNCHANGED <<txs, seVars, ndVars, txVars, cbVars, fnVars>>

\* MatchShortIDs: the range over m.txs, which keeps for every requested
\* short id one transaction that has it; m.mu.Unlock()
MatchRange(t) ==
    /\ callers[t].pc = "match_range"
    /\ mu' = 0
    /\ LET hit == {sid \in callers[t].requested :
                      \E tx \in txs : CalculateShortID(tx) = sid}
       IN  \E matches \in [hit -> txs] :
              /\ \A sid \in hit : CalculateShortID(matches[sid]) = sid
              /\ callers' = [callers EXCEPT ![t] =
                               [pc |-> "idle",
                                ret |-> {<<sid, matches[sid]>> : sid \in hit}]]
    /\ UNCHANGED <<txs, seVars, ndVars, txVars, cbVars, fnVars>>

NextMempool ==
    \E t \in 1..NumCallers :
        \/ Call(t) \/ AllLen(t) \/ Lock(t) \/ AddStore(t) \/ GetLoad(t)
        \/ RemoveDelete(t) \/ AllRange(t) \/ MatchRange(t)

SpecMempool == InitMempool /\ [][NextMempool]_vars

\* the statements that read or write m.txs
TouchesMap(t) ==
    callers[t].pc \in {"add_store", "get_load", "remove_delete", "all_len",
                       "all_range", "match_range"}

\* C2: every read or write of the transaction map, the read of its length
\* included, happens while the caller holds the mempool mutex, so that no
\* operation observes the map while another one is updating it.
C2_MapUnderMutex ==
    /\ \A t \in 1..NumCallers : TouchesMap(t) => mu = t
    /\ \A r, w \in 1..NumCallers :
          (r # w /\ callers[w].pc \in {"add_store", "remove_delete"})
              => ~TouchesMap(r)

-----------------------------------------------------------------------------
(* internal/network/node.go: one SimpleNode, the peer at the other end of
   its connection, the node's three loops, the handler goroutines the
   dispatch loop spawns, and two goroutines of the program that owns the
   node: one calling Handshake and Receive, one calling Close.

   A channel is a record of its buffer and whether it was closed; sn.done
   carries no values, so it is its closed flag.  An envelope is its command,
   its place in the order the peer sent it (id), and whether its checksum
   matches its payload. *)

IncomingCap == 10

OutgoingCap == 10

\* RegisterChannel(name, bufSize): the capacity each command's queue is made with
ChanCap(command) == IF command = "tx" THEN 25 ELSE 1

\* the OnMessage calls of NewSimpleNode, in order (those for commands the
\* peer of the model never sends are left out)
Registrations == <<"ping", "verack">>

\* what the peer may put on the wire
PeerEnvelopes(id) ==
    {[Command |-> c, id |-> id, checksumOK |-> TRUE] : c \in {"version", "verack", "ping"}}
        \cup {[Command |-> "ping", id |-> id, checksumOK |-> FALSE]}

\* NetworkEnvelope{}, which a receive from a closed channel yields
NoEnvelope == [Command |-> "", id |-> 0, checksumOK |-> TRUE]

\* an offer that makes room in a full channel by evicting its oldest envelope
OfferEvictingOldest(ch, capacity, env) ==
    IF Len(ch.buf) < capacity
    THEN [ch EXCEPT !.buf = Append(@, env)]
    ELSE [ch EXCEPT !.buf = Append(Tail(@), env)]

\* messageLoop: "select { case ch <- env: default: }", the send that never waits
Offer(ch, capacity, env) ==
    IF Len(ch.buf) < capacity THEN [ch EXCEPT !.buf = Append(@, env)] ELSE ch

\* NewSimpleNode up to "go sn.messageLoop()": the connection is dialled, the
\* channels are made (of those of channelsMap, the model keeps the ones for
\* version and verack), the three loops are started; the OnMessage calls follow
InitNode ==
    /\ sn = [incoming |-> [buf |-> <<>>, closed |-> FALSE],
             outgoing |-> <<>>, done |-> FALSE, wg |-> 3, handlers |-> {},
             channelsMap |-> [c \in {"version", "verack"} |->
                                [buf |-> <<>>, closed |-> FALSE]]]
    /\ conn = [wire |-> <<>>, peerSent |-> 0, peerClosed |-> FALSE,
               written |-> <<>>, closed |-> FALSE]
    /\ gor = [ctor |-> 1,
              readLoop |-> [pc |-> "select", env |-> NoEnvelope],
              sendLoop |-> "loop",
              messageLoop |-> "loop",
              handlerGo |-> {},
              started |-> <<>>,
              dropped |-> {},
              app |-> [pc |-> "ready", handshaken |-> FALSE,
                       call |-> "", command |-> "", result |-> "",
                       version |-> FALSE, verack |-> FALSE],
              closer |-> "idle"]
    /\ IdleScript
    /\ IdleMempool
    /\ IdleTx
    /\ IdleRecon
    /\ IdleCall

\* the peer sends one more envelope
PeerSend ==
    /\ conn.peerSent < MaxPeerMsgs
    /\ ~conn.peerClosed /\ ~conn.closed
    /\ \E env \in PeerEnvelopes(conn.peerSent + 1) :
          conn' = [conn EXCEPT !.wire = Append(@, env), !.peerSent = @ + 1]
    /\ UNCHANGED <<sn, gor, seVars, mpVars, txVars, cbVars, fnVars>>

\* the peer closes the connection
PeerClose ==
    /\ ~conn.peerClosed /\ ~conn.closed
    /\ conn' = [conn EXCEPT !.peerClosed = TRUE]
    /\ UNCHANGED <<sn, gor, seVars, mpVars, txVars, cbVars, fnVars>>

\* OnMessage, called by NewSimpleNode after the loops were started
OnMessage ==
    /\ gor.ctor <= Len(Registrations)
    /\ sn' = [sn EXCEPT !.handlers = @ \cup {Registrations[gor.ctor]}]
    /\ gor' = [gor EXCEPT !.ctor = @ + 1]
    /\ UNCHANGED <<conn, seVars, mpVars, txVars, cbVars, fnVars>>

\* readLoop returns: "defer close(sn.incoming)", "defer sn.wg.Done()"
ReadLoopReturn(s) ==
    [s EXCEPT !.incoming.closed = TRUE, !.wg = @ - 1]

\* readLoop: the outer select, "case <-sn.done: return", else on to the read
ReadLoopSelect ==
    /\ gor.readLoop.pc = "select"
    /\ IF sn.done
       THEN /\ sn' = ReadLoopReturn(sn)
            /\ gor' = [gor EXCEPT !.readLoop.pc = "exit"]
       ELSE /\ gor' = [gor EXCEPT !.readLoop.pc = "parse"]
            /\ UNCHANGED sn
    /\ UNCHANGED <<conn, seVars, mpVars, txVars, cbVars, fnVars>>

\* readLoop: ParseNetworkEnvelope(sn.conn), which waits for the peer's bytes
\* and for nothing else; an envelope whose checksum does not match, and a
\* connection the peer closed, are errors, and readLoop returns on an error
ReadLoopParse ==
    /\ gor.readLoop.pc = "parse"
    /\ IF conn.wire # <<>>
       THEN /\ conn' = [conn EXCEPT !.wire = Tail(@)]
            /\ IF Head(conn.wire).checksumOK
               THEN /\ gor' = [gor EXCEPT !.readLoop =
                                 [pc |-> "deliver", env |-> Head(conn.wire)]]
                    /\ UNCHANGED sn
               ELSE /\ gor' = [gor EXCEPT !.readLoop.pc = "exit"]
                    /\ sn' = ReadLoopReturn(sn)
       ELSE /\ conn.peerClosed \/ conn.closed
            /\ gor' = [gor EXCEPT !.readLoop.pc = "exit"]
            /\ sn' = ReadLoopReturn(sn)
            /\ UNCHANGED conn
    /\ UNCHANGED <<seVars, mpVars, txVars, cbVars, fnVars>>

\* readLoop: "select { case sn.incoming <- env: case <-sn.done: return }"
ReadLoopDeliver ==
    /\ gor.readLoop.pc = "deliver"
    /\ \/ /\ Len(sn.incoming.buf) < IncomingCap
          /\ sn' = [sn EXCEPT !.incoming.buf = Append(@, gor.readLoop.env)]
          /\ gor' = [gor EXCEPT !.readLoop = [pc |-> "select", env |-> NoEnvelope]]
       \/ /\ sn.done
          /\ sn' = ReadLoopReturn(sn)
          /\ gor' = [gor EXCEPT !.readLoop = [pc |-> "exit", env |-> NoEnvelope]]
    /\ UNCHANGED <<conn, seVars, mpVars, txVars, cbVars, fnVars>>

\* sendLoop, one iteration: "case msg := <-sn.outgoing" serializes the
\* message and writes it to the connection, returning when the write fails
\* (a write to a connection the peer closed may still succeed locally);
\* "case <-sn.done" returns
SendLoop ==
    /\ gor.sendLoop = "loop"
    /\ \/ /\ sn.outgoing # <<>>
          /\ \/ /\ ~conn.closed
                /\ conn' = [conn EXCEPT !.written = Append(@, Head(sn.outgoing))]
                /\ sn' = [sn EXCEPT !.outgoing = Tail(@)]
                /\ UNCHANGED gor
             \/ /\ conn.peerClosed \/ conn.closed
                /\ sn' = [sn EXCEPT !.outgoing = Tail(@), !.wg = @ - 1]
                /\ gor' = [gor EXCEPT !.sendLoop = "exit"]
                /\ UNCHANGED conn
       \/ /\ sn.done
          /\ sn' = [sn EXCEPT !.wg = @ - 1]
          /\ gor' = [gor EXCEPT !.sendLoop = "exit"]
          /\ UNCHANGED conn
    /\ UNCHANGED <<seVars, mpVars, txVars, cbVars, fnVars>>

\* Send(msg): "select { case sn.outgoing <- msg: return nil;
\* case <-sn.done: return error }": the outcomes the select can take now
Send(s, msg) ==
    {[sn |-> [s EXCEPT !.outgoing = Append(@, msg)], err |-> FALSE] :
        x \in IF Len(s.outgoing) < OutgoingCap THEN {1} ELSE {}}
    \cup {[sn |-> s, err |-> TRUE] : x \in IF s.done THEN {1} ELSE {}}

\* "<-ch": the outcomes of a receive that can complete now
Recv(ch) ==
    IF ch.buf # <<>>
    THEN {[ch |-> [ch EXCEPT !.buf = Tail(@)], env |-> Head(ch.buf), ok |-> TRUE]}
    ELSE IF ch.closed THEN {[ch |-> ch, env |-> NoEnvelope, ok |-> FALSE]} ELSE {}

\* messageLoop, one iteration of "for env := range sn.incoming": the offer to
\* the command's channel, the warning logged when the channel is full
\* (gor.dropped keeps the warnings), then "go handler(env)"
MessageLoop ==
    /\ gor.messageLoop = "loop"
    /\ sn.incoming.buf # <<>>
    /\ LET env == Head(sn.incoming.buf)
       IN  /\ sn' = [sn EXCEPT
                       !.incoming.buf = Tail(@),
                       !.channelsMap =
                           IF env.Command \in DOMAIN @
                           THEN [@ EXCEPT ![env.Command] =
                                    Offer(@, ChanCap(env.Command), env)]
                           ELSE @]
           /\ gor' = [gor EXCEPT
                        !.dropped =
                            IF /\ env.Command \in DOMAIN sn.channelsMap
                               /\ Len(sn.channelsMap[env.Command].buf)
                                      >= ChanCap(env.Command)
                            THEN @ \cup {env.id} ELSE @,
                        !.handlerGo =
                            IF env.Command \in sn.handlers
                            THEN @ \cup {[env |-> env, pc |-> "spawned"]}
                            ELSE @]
    /\ UNCHANGED <<conn, seVars, mpVars, txVars, cbVars, fnVars>>

\* messageLoop, the range ending on the closed, drained sn.incoming: the
\* deferred sn.wg.Done() and close(ch) of every channel of channelsMap
MessageLoopReturn ==
    /\ gor.messageLoop = "loop"
    /\ sn.incoming.buf = <<>> /\ sn.incoming.closed
    /\ sn' = [sn EXCEPT
                !.wg = @ - 1,
                !.channelsMap = [c \in DOMAIN @ |-> [@[c] EXCEPT !.closed = TRUE]]]
    /\ gor' = [gor EXCEPT !.messageLoop = "exit"]
    /\ UNCHANGED <<conn, seVars, mpVars, txVars, cbVars, fnVars>>

\* a goroutine made by "go handler(env)" is scheduled: the handler begins
HandlerBegin(id) ==
    /\ \E h \in gor.handlerGo :
          /\ h.env.id = id
          /\ h.pc = "spawned"
          /\ gor' = [gor EXCEPT
                       !.handlerGo = (@ \ {h}) \cup {[h EXCEPT !.pc = "running"]},
                       !.started = Append(@, id)]
    /\ UNCHANGED <<sn, conn, seVars, mpVars, txVars, cbVars, fnVars>>

\* the handler's body: for ping, sn.Send(pong); for verack, a log line
HandlerBody(id) ==
    /\ \E h \in gor.handlerGo :
          /\ h.env.id = id
          /\ h.pc = "running"
          /\ IF h.env.Command = "ping"
             THEN \E o \in Send(sn, [Command |-> "pong", id |-> id]) : sn' = o.sn
             ELSE UNCHANGED sn
          /\ gor' = [gor EXCEPT !.handlerGo = @ \ {h}]
    /\ UNCHANGED <<conn, seVars, mpVars, txVars, cbVars, fnVars>>

\* Handshake is called, once, on the node NewSimpleNode has returned:
\* sn.Send(&msg) of the version message
HandshakeCall ==
    /\ gor.ctor > Len(Registrations)
    /\ gor.app.pc = "ready"
    /\ ~gor.app.handshaken
    /\ \E o \in Send(sn, [Command |-> "version", id |-> 0]) :
          /\ sn' = o.sn
          /\ gor' = [gor EXCEPT !.app =
                       [@ EXCEPT !.call = "Handshake", !.command = "",
                                 !.handshaken = TRUE,
                                 !.pc = IF o.err THEN "ready" ELSE "hs_version",
                                 !.result = IF o.err THEN "error" ELSE ""]]
    /\ UNCHANGED <<conn, seVars, mpVars, txVars, cbVars, fnVars>>

\* Handshake: <-sn.channelsMap["version"]
HandshakeVersion ==
    /\ gor.app.pc = "hs_version"
    /\ \E r \in Recv(sn.channelsMap["version"]) :
          /\ sn' = [sn EXCEPT !.channelsMap["version"] = r.ch]
          /\ gor' = [gor EXCEPT !.app.pc = "hs_verack", !.app.version = r.ok]
    /\ UNCHANGED <<conn, seVars, mpVars, txVars, cbVars, fnVars>>

\* Handshake: <-sn.channelsMap["verack"]
HandshakeVerack ==
    /\ gor.app.pc = "hs_verack"
    /\ \E r \in Recv(sn.channelsMap["verack"]) :
          /\ sn' = [sn EXCEPT !.channelsMap["verack"] = r.ch]
          /\ gor' = [gor EXCEPT !.app.pc = "hs_send", !.app.verack = r.ok]
    /\ UNCHANGED <<conn, seVars, mpVars, txVars, cbVars, fnVars>>

\* Handshake: sn.Send(&VerackMessage{}), then "return nil"
HandshakeSend ==
    /\ gor.app.pc = "hs_send"
    /\ \E o \in Send(sn, [Command |-> "verack", id |-> 0]) :
          /\ sn' = o.sn
          /\ gor' = [gor EXCEPT !.app.pc = "ready",
                                !.app.result = IF o.err THEN "error" ELSE "nil"]
    /\ UNCHANGED <<conn, seVars, mpVars, txVars, cbVars, fnVars>>

\* Receive(command) is called, or ReceiveWithTimeout(command, timeout), which
\* differs in the timer's duration only: the timer is made and the channel
\* looked up, "unknown command" if there is none
ReceiveCall ==
    /\ gor.ctor > Len(Registrations)
    /\ gor.app.pc = "ready"
    /\ \E c \in {"version", "verack", "ping"} :
          gor' = [gor EXCEPT !.app =
                    [@ EXCEPT !.call = "Receive", !.command = c,
                              !.pc = IF c \in DOMAIN sn.channelsMap
                                     THEN "receive" ELSE "ready",
                              !.result = IF c \in DOMAIN sn.channelsMap
                                         THEN "" ELSE "unknown command"]]
    /\ UNCHANGED <<sn, conn, seVars, mpVars, txVars, cbVars, fnVars>>

\* the select of Receive: "case env, ok := <-ch"
ReceiveEnv ==
    /\ gor.app.pc = "receive"
    /\ \E r \in Recv(sn.channelsMap[gor.app.command]) :
          /\ sn' = [sn EXCEPT !.channelsMap[gor.app.command] = r.ch]
          /\ gor' = [gor EXCEPT !.app.pc = "ready",
                                !.app.result = IF r.ok THEN "nil"
                                               ELSE "connection closed"]
    /\ UNCHANGED <<conn, seVars, mpVars, txVars, cbVars, fnVars>>

\* the select of Receive: "case <-timeout.C", the timer has fired
ReceiveTimeout ==
    /\ gor.app.pc = "receive"
    /\ gor' = [gor EXCEPT !.app.pc = "ready", !.app.result = "timeout"]
    /\ UNCHANGED <<sn, conn, seVars, mpVars, txVars, cbVars, fnVars>>

\* the select of Receive: "case <-sn.done"
ReceiveDone ==
    /\ gor.app.pc = "receive"
    /\ sn.done
    /\ gor' = [gor EXCEPT !.app.pc = "ready", !.app.result = "connection closed"]
    /\ UNCHANGED <<sn, conn, seVars, mpVars, txVars, cbVars, fnVars>>

\* Close: close(sn.done), on to sn.wg.Wait()
Close ==
    /\ gor.ctor > Len(Registrations)
    /\ gor.closer = "idle"
    /\ sn' = [sn EXCEPT !.done = TRUE]
    /\ gor' = [gor EXCEPT !.closer = "wait"]
    /\ UNCHANGED <<conn, seVars, mpVars, txVars, cbVars, fnVars>>

\* Close: sn.wg.Wait() returns, sn.conn.Close(), return
CloseWait ==
    /\ gor.closer = "wait"
    /\ sn.wg = 0
    /\ conn' = [conn EXCEPT !.closed = TRUE]
    /\ gor' = [gor EXCEPT !.closer = "returned"]
    /\ UNCHANGED <<sn, seVars, mpVars, txVars, cbVars, fnVars>>

NextNode ==
    \/ PeerSend \/ PeerClose \/ OnMessage
    \/ ReadLoopSelect \/ ReadLoopParse \/ ReadLoopDeliver
    \/ SendLoop \/ MessageLoop \/ MessageLoopReturn
    \/ \E id \in 1..MaxPeerMsgs : HandlerBegin(id) \/ HandlerBody(id)
    \/ HandshakeCall \/ HandshakeVersion \/ HandshakeVerack \/ HandshakeSend
    \/ ReceiveCall \/ ReceiveEnv \/ ReceiveTimeout \/ ReceiveDone
    \/ Close \/ CloseWait

SpecNode == InitNode /\ [][NextNode]_vars

\* The Go scheduler runs every goroutine that can take a step, and a timer
\* that was made fires; nothing makes the peer send or close, and nothing
\* makes the program call Handshake, Receive or Close.
SpecNodeFair ==
    /\ SpecNode
    /\ WF_vars(OnMessage)
    /\ WF_vars(ReadLoopSelect \/ ReadLoopParse \/ ReadLoopDeliver)
    /\ WF_vars(SendLoop)
    /\ WF_vars(MessageLoop \/ MessageLoopReturn)
    /\ \A id \in 1..MaxPeerMsgs : WF_vars(HandlerBegin(id) \/ HandlerBody(id))
    /\ WF_vars(HandshakeVersion \/ HandshakeVerack \/ HandshakeSend)
    /\ WF_vars(ReceiveEnv \/ ReceiveTimeout \/ ReceiveDone)
    /\ WF_vars(CloseWait)

\* C3: inbound envelopes reach their handlers in arrival order: when two
\* envelopes both have a registered handler, the handler invocation for the
\* one read first begins before the handler invocation for the other.
C3_HandlersInArrivalOrder ==
    /\ \A i, j \in DOMAIN gor.started :
          i < j => gor.started[i] < gor.started[j]
    /\ \A i \in DOMAIN gor.started : \A h \in gor.handlerGo :
          h.pc = "spawned" => gor.started[i] < h.env.id

\* C4: after Close is called the shutdown signal reaches every blocking
\* wait: the read loop, the send loop and the dispatch loop all terminate and
\* Close returns, also when the peer keeps the connection open and silent.
C4_CloseReturns ==
    (gor.closer = "wait") ~>
        (/\ gor.closer = "returned"
         /\ gor.readLoop.pc = "exit"
         /\ gor.sendLoop = "exit"
         /\ gor.messageLoop = "exit")

\* C5: Handshake returns nil only if a version envelope and a verack
\* envelope were both received from the peer, and the node's own verack is
\* enqueued only after both were received; a connection that closes before
\* either arrives never yields a successful handshake.
C5_HandshakeNeedsBoth ==
    LET sent == sn.outgoing \o conn.written
    IN  /\ (gor.app.call = "Handshake" /\ gor.app.result = "nil")
              => (gor.app.version /\ gor.app.verack)
        /\ (\E i \in DOMAIN sent : sent[i].Command = "verack")
              => (gor.app.version /\ gor.app.verack)

\* C6: every wait for an expected inbound message ends: Receive,
\* ReceiveWithTimeout and the waits for version and for verack inside
\* Handshake each return the envelope, a timeout error or a connection-closed
\* error by their deadline, and none waits forever on a silent peer.
C6_WaitsEnd ==
    /\ (gor.app.pc = "receive") ~> (gor.app.pc # "receive")
    /\ (gor.app.pc = "hs_version") ~> (gor.app.pc # "hs_version")
    /\ (gor.app.pc = "hs_verack") ~> (gor.app.pc # "hs_verack")

-----------------------------------------------------------------------------
(* internal/transactions: one Transaction, whose exported Inputs and Outputs
   its owner may assign to, and the operations SigHashBIP143, SignInput and
   Verify.  A previous transaction's hash is one byte, a signature is the
   hash it signs and the key it was made with, and every output an input
   refers to is a P2PKH output. *)

\* encoding.Hash256 (SHA-256 twice)
Hash256(data) == Digest(data, 32, 256)

\* the uint64 amounts of the model: 2 and 2^64 - 1
Amounts == {LEOf(2, 8), <<255, 255, 255, 255, 255, 255, 255, 255>>}

\* TxFetcher.Fetch: the output a previous transaction's hash leads to
Fetch(prevTx) == [Amount |-> LEOf(prevTx, 8), owner |-> 1 + (prevTx % 2)]

RECURSIVE Flatten(_)
\* append(all, item...) over a range
Flatten(items) ==
    IF items = <<>> THEN <<>> ELSE Head(items) \o Flatten(Tail(items))

RECURSIVE SumAmounts(_, _)
\* "sum += amount" over a range, in integers of w bytes
SumAmounts(amounts, w) ==
    IF amounts = <<>> THEN LEOf(0, w)
    ELSE LEAdd(SumAmounts(Tail(amounts), w),
               [i \in 1..w |-> IF i <= 8 THEN Head(amounts)[i] ELSE 0])

\* hashPrevOuts: allPrevOuts
allPrevOuts(t) ==
    Flatten([i \in DOMAIN t.Inputs |-> <<t.Inputs[i].PrevTx>> \o LEOf(t.Inputs[i].PrevIdx, 4)])

\* hashPrevOuts: allSequence
allSequence(t) ==
    Flatten([i \in DOMAIN t.Inputs |-> LEOf(t.Inputs[i].Sequence, 4)])

\* hashOutputs: allOutputs
allOutputs(t) ==
    Flatten([j \in DOMAIN t.Outputs |-> t.Outputs[j].Amount])

\* hashPrevOuts: the transaction after the call, and the hash returned
hashPrevOuts(t) ==
    LET t2 == IF t.cachedHashOutputs = <<>>
              THEN [t EXCEPT !.cachedHashPrevOuts = Hash256(allPrevOuts(t)),
                             !.cachedHashSequence = Hash256(allSequence(t))]
              ELSE t
    IN  [t |-> t2, hash |-> t2.cachedHashPrevOuts]

\* hashSequence
hashSequence(t) ==
    LET t2 == IF t.cachedHashSequence = <<>> THEN hashPrevOuts(t).t ELSE t
    IN  [t |-> t2, hash |-> t2.cachedHashSequence]

\* hashOutputs
hashOutputs(t) ==
    LET t2 == IF t.cachedHashOutputs = <<>>
              THEN [t EXCEPT !.cachedHashOutputs = Hash256(allOutputs(t))]
              ELSE t
    IN  [t |-> t2, hash |-> t2.cachedHashOutputs]

\* SigHash: the hash of the transaction with the script of the output spent
\* in the place of input inputIndex's ScriptSig and the others emptied
SigHash(t, inputIndex) ==
    Hash256(Flatten([i \in DOMAIN t.Inputs |->
                        <<t.Inputs[i].PrevTx>> \o LEOf(t.Inputs[i].PrevIdx, 4)
                          \o (IF i = inputIndex THEN <<1>> ELSE <<0>>)
                          \o LEOf(t.Inputs[i].Sequence, 4)])
            \o allOutputs(t))

\* what an operation that returns no hashes leaves in txret
NoRet == [op |-> "", err |-> "", valid |-> FALSE, hashPrevOuts |-> <<>>,
          hashSequence |-> <<>>, hashOutputs |-> <<>>]

\* NewTransaction: inputs not yet signed, the caches nil (assigns counts the
\* owner's assignments, which the model stops at MaxAssigns)
InitTx ==
    /\ \E ni \in 1..MaxInputs, no \in 1..MaxOutputs :
         \E prev \in [1..ni -> 1..2], amount \in [1..no -> Amounts] :
            txn = [Inputs |-> [i \in 1..ni |->
                                 [PrevTx |-> prev[i], PrevIdx |-> 0,
                                  ScriptSig |-> <<>>, Sequence |-> 255]],
                   Outputs |-> [j \in 1..no |-> [Amount |-> amount[j]]],
                   cachedHashPrevOuts |-> <<>>, cachedHashSequence |-> <<>>,
                   cachedHashOutputs |-> <<>>, assigns |-> 0]
    /\ txret = NoRet
    /\ IdleScript
    /\ IdleMempool
    /\ IdleNode
    /\ IdleRecon
    /\ IdleCall

\* SigHashBIP143(inputIndex, nil, nil): hashPrevOuts and hashSequence, then
\* the fetch of the output spent, which the network may fail, then hashOutputs
SigHashBIP143(inputIndex) ==
    /\ inputIndex \in DOMAIN txn.Inputs
    /\ LET p == hashPrevOuts(txn)
           q == hashSequence(p.t)
           o == hashOutputs(q.t)
       IN  \/ /\ txn' = q.t
              /\ txret' = [NoRet EXCEPT !.op = "SigHashBIP143", !.err = "fetch"]
           \/ /\ txn' = o.t
              /\ txret' = [NoRet EXCEPT !.op = "SigHashBIP143",
                                        !.hashPrevOuts = p.hash,
                                        !.hashSequence = q.hash,
                                        !.hashOutputs = o.hash]
    /\ UNCHANGED <<seVars, mpVars, ndVars, cbVars, fnVars>>

\* SignInput(inputIndex, privKey): t.SigHash, which fetches the output
\* spent, then t.Inputs[inputIndex].ScriptSig = scriptSig
SignInput(inputIndex, privKey) ==
    /\ inputIndex \in DOMAIN txn.Inputs
    /\ \/ /\ txret' = [NoRet EXCEPT !.op = "SignInput", !.err = "fetch"]
          /\ UNCHANGED txn
       \/ /\ txret' = [NoRet EXCEPT !.op = "SignInput"]
          /\ txn' = [txn EXCEPT !.Inputs[inputIndex].ScriptSig =
                        [z |-> SigHash(txn, inputIndex), key |-> privKey]]
    /\ UNCHANGED <<seVars, mpVars, ndVars, cbVars, fnVars>>

\* the owner assigns to a field of t.Inputs[i]: a different output to spend,
\* or a different sequence number
AssignInput(i) ==
    /\ i \in DOMAIN txn.Inputs
    /\ txn.assigns < MaxAssigns
    /\ \/ \E prev \in (1..2) \ {txn.Inputs[i].PrevTx} :
            txn' = [txn EXCEPT !.Inputs[i].PrevTx = prev, !.assigns = @ + 1]
       \/ \E sq \in {254, 255} \ {txn.Inputs[i].Sequence} :
            txn' = [txn EXCEPT !.Inputs[i].Sequence = sq, !.assigns = @ + 1]
    /\ txret' = [NoRet EXCEPT !.op = "assign"]
    /\ UNCHANGED <<seVars, mpVars, ndVars, cbVars, fnVars>>

\* the owner assigns to t.Outputs[j].Amount
AssignOutput(j) ==
    /\ j \in DOMAIN txn.Outputs
    /\ txn.assigns < MaxAssigns
    /\ \E amount \in Amounts \ {txn.Outputs[j].Amount} :
          txn' = [txn EXCEPT !.Outputs[j].Amount = amount, !.assigns = @ + 1]
    /\ txret' = [NoRet EXCEPT !.op = "assign"]
    /\ UNCHANGED <<seVars, mpVars, ndVars, cbVars, fnVars>>

\* Fee: the two sums in uint64, "outputSum > inputSum" an error
Fee(t) ==
    LET inputSum == SumAmounts([i \in DOMAIN t.Inputs |->
                                   Fetch(t.Inputs[i].PrevTx).Amount], 8)
        outputSum == SumAmounts([j \in DOMAIN t.Outputs |-> t.Outputs[j].Amount], 8)
    IN  IF LELess(inputSum, outputSum) THEN "NegativeFee" ELSE ""

\* VerifyInput for an input that spends a P2PKH output: the legacy sighash,
\* and the evaluation of ScriptSig combined with the output's script, which
\* accepts a signature of that hash made with the output's key
VerifyInput(t, inputIndex) ==
    /\ t.Inputs[inputIndex].ScriptSig # <<>>
    /\ t.Inputs[inputIndex].ScriptSig.z = SigHash(t, inputIndex)
    /\ t.Inputs[inputIndex].ScriptSig.key = Fetch(t.Inputs[inputIndex].PrevTx).owner

\* Verify: Fee, then VerifyInput of every input; the fetches may fail
Verify ==
    /\ txret.op # "Verify"
    /\ \/ txret' = [NoRet EXCEPT !.op = "Verify", !.err = "fetch"]
       \/ txret' = [NoRet EXCEPT
                      !.op = "Verify",
                      !.err = Fee(txn),
                      !.valid = /\ Fee(txn) = ""
                                /\ \A i \in DOMAIN txn.Inputs : VerifyInput(txn, i)]
    /\ UNCHANGED <<txn, seVars, mpVars, ndVars, cbVars, fnVars>>

NextTx ==
    \/ \E i \in 1..MaxInputs :
          \/ SigHashBIP143(i)
          \/ \E privKey \in 1..2 : SignInput(i, privKey)
          \/ AssignInput(i)
    \/ \E j \in 1..MaxOutputs : AssignOutput(j)
    \/ Verify

SpecTx == InitTx /\ [][NextTx]_vars

\* C9: the hashPrevouts, hashSequence and hashOutputs a BIP 143 sighash
\* computation uses equal the hashes recomputed from the transaction's
\* inputs and outputs as they are at that computation, whatever sighash
\* computations, assignments and SignInput calls came before; a cached value
\* is never used after the data it was derived from changed.
C9_CachedHashesCurrent ==
    (txret.op = "SigHashBIP143" /\ txret.err = "")
        => /\ txret.hashPrevOuts = Hash256(allPrevOuts(txn))
           /\ txret.hashSequence = Hash256(allSequence(txn))
           /\ txret.hashOutputs = Hash256(allOutputs(txn))

\* C10: whenever the sum of the output amounts exceeds the sum of the
\* amounts of the outputs the inputs refer to, as mathematical integers,
\* Verify fails with the negative-fee error and never reports the
\* transaction valid.
C10_NegativeFeeRejected ==
    LET inputSum == SumAmounts([i \in DOMAIN txn.Inputs |->
                                   Fetch(txn.Inputs[i].PrevTx).Amount], 9)
        outputSum == SumAmounts([j \in DOMAIN txn.Outputs |->
                                    txn.Outputs[j].Amount], 9)
    IN  (txret.op = "Verify" /\ txret.err # "fetch" /\ LELess(inputSum, outputSum))
            => (txret.err = "NegativeFee" /\ ~txret.valid)

-----------------------------------------------------------------------------
(* internal/network/compact.go, ReconstructBlock: one compact block message,
   the blocks in memory by address (recon.blocks; the message's header is
   at address 1 and comes from the parser without transaction hashes),
   the mempool (txs, which other goroutines add to and remove from), a
   first call without blocktxn transactions and a second call with them.
   A transaction is its txid; positions count from 0 as in the code; 0 in
   the transaction slice is a nil pointer. *)

\* the transactions the mempool may hold: 1 and 5 have the same short id
PoolTxids == {1, 2, 5}

\* the compact block messages: short ids (that of no mempool transaction
\* among them) and prefilled transactions at any index a decoded
\* differential can give, also outside the slice; Header is a *block.Block,
\* the address of a block
Messages ==
    UNION {{[Header |-> 1, ShortIDs |-> sids,
             PrefilledTxns |-> [k \in 1..np |-> [Index |-> ix[k], Tx |-> 100 + k]]] :
               sids \in [1..ns -> {0, 2, 3}], ix \in [1..np -> -1..MaxBlockTxns]} :
             ns \in 0..MaxBlockTxns, np \in 0..MaxBlockTxns}

\* an offer of matches that does not look at the short id
MatchAnyTransaction(shortids, pool) ==
    LET hit == {shortids[i] : i \in DOMAIN shortids}
    IN  IF pool = {} THEN {<<>>} ELSE [hit -> pool]

\* Mempool.MatchShortIDs: the maps it can return, one transaction of the
\* pool for every requested short id that some transaction of the pool has
\* (which one, when several have it, is the map iteration's choice)
MatchShortIDs(shortids, pool) ==
    LET hit == {sid \in {shortids[i] : i \in DOMAIN shortids} :
                   \E t \in pool : CalculateShortID(t) = sid}
    IN  {m \in [hit -> pool] : \A sid \in hit : CalculateShortID(m[sid]) = sid}

\* ReconstructBlock(msg, pool, missingTxns, version) given the matches:
\* the prefilled transactions placed, the walk over the positions, the merge
\* of missingTxns; an index outside a slice is a panic.  The block returned
\* is the pointer msg.Header, and TxHashes is what the call assigns to the
\* TxHashes of the block at that address (a transaction's hash is its txid,
\* a nil transaction leaves the zero hash).
ReconstructBlock(msg, matches, missingTxns) ==
    LET totalTxns == Len(msg.ShortIDs) + Len(msg.PrefilledTxns)
        placed[k \in 0..Len(msg.PrefilledTxns)] ==
            IF k = 0
            THEN [panic |-> FALSE, txns |-> [i \in 0..(totalTxns - 1) |-> 0]]
            ELSE LET prev == placed[k - 1]
                     pf == msg.PrefilledTxns[k]
                 IN  IF prev.panic \/ pf.Index \notin 0..(totalTxns - 1)
                     THEN [prev EXCEPT !.panic = TRUE]
                     ELSE [prev EXCEPT !.txns[pf.Index] = pf.Tx]
        walk[i \in 0..totalTxns] ==
            IF i = 0
            THEN [panic |-> placed[Len(msg.PrefilledTxns)].panic,
                  txns |-> placed[Len(msg.PrefilledTxns)].txns,
                  shortIDIdx |-> 0, missing |-> <<>>]
            ELSE LET prev == walk[i - 1]
                 IN  IF prev.panic \/ prev.txns[i - 1] # 0 THEN prev
                     ELSE IF prev.shortIDIdx >= Len(msg.ShortIDs)
                     THEN [prev EXCEPT !.panic = TRUE]
                     ELSE LET sid == msg.ShortIDs[prev.shortIDIdx + 1]
                          IN  IF sid \in DOMAIN matches
                              THEN [prev EXCEPT !.txns[i - 1] = matches[sid],
                                                !.shortIDIdx = @ + 1]
                              ELSE [prev EXCEPT !.missing = Append(@, i - 1),
                                                !.shortIDIdx = @ + 1]
        w == walk[totalTxns]
        missIdx == IF Len(missingTxns) < Len(w.missing)
                   THEN Len(missingTxns) ELSE Len(w.missing)
        txns == [i \in 0..(totalTxns - 1) |->
                   IF \E k \in 1..missIdx : w.missing[k] = i
                   THEN missingTxns[CHOOSE k \in 1..missIdx : w.missing[k] = i]
                   ELSE w.txns[i]]
    IN  IF w.panic
        THEN [res |-> "panic", txns |-> <<>>, missing |-> <<>>,
              block |-> 0, TxHashes |-> <<>>]
        ELSE [res |-> "ok",
              txns |-> txns,
              missing |-> SubSeq(w.missing, missIdx + 1, Len(w.missing)),
              block |-> msg.Header,
              TxHashes |-> [i \in 1..totalTxns |-> txns[i - 1]]]

InitCompact ==
    /\ LET NoBlock == [res |-> "none", txns |-> <<>>, missing |-> <<>>, pool |-> {},
                       block |-> 0, TxHashes |-> <<>>]
       IN  recon \in {[msg |-> msg, blocks |-> <<[TxHashes |-> <<>>]>>,
                       first |-> NoBlock, missingTxns |-> <<>>,
                       second |-> NoBlock] :
                        msg \in {m \in Messages :
                                   Len(m.ShortIDs) + Len(m.PrefilledTxns) <= MaxBlockTxns}}
    /\ txs \in SUBSET PoolTxids
    /\ mu = 0
    /\ callers = [c \in 1..NumCallers |-> [pc |-> "idle", fn |-> "none", txid |-> 0]]
    /\ IdleScript /\ IdleNode /\ IdleTx /\ IdleCall

\* ReconstructBlock(msg, pool, nil, version)
ReconstructFirst ==
    /\ recon # <<>>
    /\ recon.first.res = "none"
    /\ \E matches \in MatchShortIDs(recon.msg.ShortIDs, txs) :
          LET r == ReconstructBlock(recon.msg, matches, <<>>)
          IN  recon' = [recon EXCEPT
                          !.first = [pool |-> txs] @@ r,
                          !.blocks = IF r.res # "ok" THEN @
                                     ELSE [@ EXCEPT ![r.block].TxHashes = r.TxHashes]]
    /\ UNCHANGED <<seVars, mpVars, ndVars, txVars, fnVars>>

\* Mempool.Add and Mempool.Remove by the goroutines that share the pool
PoolChange ==
    /\ recon # <<>>
    /\ \E t \in PoolTxids : txs' = IF t \in txs THEN txs \ {t} ELSE txs \cup {t}
    /\ UNCHANGED <<mu, callers, seVars, ndVars, txVars, cbVars, fnVars>>

\* ReconstructBlock(msg, pool, btxn.Transactions, version): the same message,
\* with the block's transactions at the positions the first call reported
ReconstructAgain ==
    /\ recon # <<>>
    /\ recon.first.res = "ok"
    /\ recon.first.missing # <<>>
    /\ recon.second.res = "none"
    /\ LET msg == recon.msg
           L == recon.first.missing
           prefilled == {msg.PrefilledTxns[k].Index : k \in DOMAIN msg.PrefilledTxns}
           sidAt(i) == msg.ShortIDs[Cardinality({j \in 0..i : j \notin prefilled})]
       IN  \E btxn \in [1..Len(L) -> 1..4] :
              /\ \A k \in 1..Len(L) : CalculateShortID(btxn[k]) = sidAt(L[k])
              /\ \E matches \in MatchShortIDs(msg.ShortIDs, txs) :
                    LET r == ReconstructBlock(msg, matches, btxn)
                    IN  recon' = [recon EXCEPT
                                    !.missingTxns = btxn,
                                    !.second = [pool |-> txs] @@ r,
                                    !.blocks =
                                        IF r.res # "ok" THEN @
                                        ELSE [@ EXCEPT ![r.block].TxHashes = r.TxHashes]]
    /\ UNCHANGED <<seVars, mpVars, ndVars, txVars, fnVars>>

NextCompact == ReconstructFirst \/ PoolChange \/ ReconstructAgain

SpecCompact == InitCompact /\ [][NextCompact]_vars

\* the prefilled indexes of the message are distinct and inside the block
WellFormed ==
    LET P == recon.msg.PrefilledTxns
        totalTxns == Len(recon.msg.ShortIDs) + Len(P)
    IN  /\ \A k \in DOMAIN P : P[k].Index \in 0..(totalTxns - 1)
        /\ \A k, l \in DOMAIN P : P[k].Index = P[l].Index => k = l

\* the short id the block has at position i, which is not prefilled
ShortIDAt(i) ==
    LET P == recon.msg.PrefilledTxns
    IN  recon.msg.ShortIDs[
            Cardinality({j \in 0..i : \A k \in DOMAIN P : P[k].Index # j})]

\* C11: without blocktxn transactions ReconstructBlock reports as missing
\* exactly the positions that are not prefilled and whose short id no
\* transaction of the mempool has, in increasing order; a prefilled position
\* holds its prefilled transaction, every other position a mempool
\* transaction with the short id of that position; when every short id is
\* matched nothing is missing.
C11_MissingAreTheUnmatched ==
    LET r == recon.first
        P == recon.msg.PrefilledTxns
        totalTxns == Len(recon.msg.ShortIDs) + Len(P)
        prefilled == {P[k].Index : k \in DOMAIN P}
        unmatched == {i \in (0..(totalTxns - 1)) \ prefilled :
                        \A t \in r.pool : CalculateShortID(t) # ShortIDAt(i)}
    IN  (recon # <<>> /\ r.res # "none" /\ WellFormed) =>
          /\ r.res = "ok"
          /\ {r.missing[k] : k \in DOMAIN r.missing} = unmatched
          /\ \A k, l \in DOMAIN r.missing : k < l => r.missing[k] < r.missing[l]
          /\ \A k \in DOMAIN P : r.txns[P[k].Index] = P[k].Tx
          /\ \A i \in (0..(totalTxns - 1)) \ prefilled :
                IF i \in unmatched THEN r.txns[i] = 0
                ELSE r.txns[i] \in r.pool
                     /\ CalculateShortID(r.txns[i]) = ShortIDAt(i)
          /\ (unmatched = {} => r.missing = <<>>)

\* a first call that met a prefilled, a matched and an unmatched position
C11_Witness ==
    /\ recon # <<>> /\ WellFormed
    /\ recon.first.res = "ok"
    /\ recon.msg.PrefilledTxns # <<>>
    /\ recon.first.missing # <<>>
    /\ \E i \in DOMAIN recon.first.txns : recon.first.txns[i] \in PoolTxids

\* C12: when the first call reported the missing positions L and the second
\* call on the same message is given the block's transactions for L in
\* order, the second call reports nothing missing and position L[k] holds
\* the k-th of them, whatever the mempool holds at the second call.
C12_SecondCallCompletes ==
    LET L == recon.first.missing
        r == recon.second
    IN  (recon # <<>> /\ r.res # "none" /\ WellFormed) =>
          /\ r.res = "ok"
          /\ r.missing = <<>>
          /\ \A k \in DOMAIN L : r.txns[L[k]] = recon.missingTxns[k]

-----------------------------------------------------------------------------
(* Parsers, serializers and calculators, each applied once to arguments drawn
   from bounded sets.  call holds the function's name, its arguments and,
   once done, what it returned. *)

\* MerkleTree.PopulateTree on the tree NewEmptyMerkleTree(total) made: the
\* recursive traverse closure from the root, then the check on the hashes.
\* A node is the pair <<depth, index>> of the cursor.
PopulateTree(total, flagBits, hashes) ==
    LET maxDepth == CHOOSE d \in 0..total : 2^d >= total /\ (d = 0 \/ 2^(d - 1) < total)
        levelLen(d) == (total + 2^(maxDepth - d) - 1) \div 2^(maxDepth - d)
        provided(d, i, st) ==
            IF st.hashIdx >= Len(hashes)
            THEN [st EXCEPT !.err = "ran out of hashes"]
            ELSE [st EXCEPT !.hash = hashes[st.hashIdx + 1],
                            !.hashIdx = @ + 1,
                            !.nodes = (<<d, i>> :> hashes[st.hashIdx + 1]) @@ @]
        RECURSIVE traverse(_, _, _)
        traverse(d, i, st) ==
            IF st.flagIdx >= Len(flagBits)
            THEN [st EXCEPT !.err = "ran out of flags bits"]
            ELSE LET flag == flagBits[st.flagIdx + 1]
                     st1 == [st EXCEPT !.flagIdx = @ + 1]
                 IN  IF d = maxDepth \/ flag = 0 THEN provided(d, i, st1)
                     ELSE LET l == traverse(d + 1, 2 * i, st1)
                              r == IF levelLen(d + 1) > 2 * i + 1
                                   THEN traverse(d + 1, 2 * i + 1, l)
                                   ELSE l
                              \* MerkleParent(leftHash, rightHash), kept as the
                              \* pair that Hash256 is applied to
                              parent == <<l.hash, r.hash>>
                          IN  IF l.err # "" THEN l
                              ELSE IF r.err # "" THEN r
                              ELSE [r EXCEPT !.hash = parent,
                                             !.nodes = (<<d, i>> :> parent) @@ @]
        t == traverse(0, 0, [err |-> "", hash |-> <<>>, flagIdx |-> 0,
                             hashIdx |-> 0, nodes |-> <<>>])
    IN  IF t.err = "" /\ t.hashIdx # Len(hashes)
        THEN [t EXCEPT !.err = "didn't use all hashes"]
        ELSE t

\* encoding.EncodeVarInt of a uint64
EncodeVarInt(i) ==
    IF i[1] < 253 /\ \A k \in 2..8 : i[k] = 0 THEN [ok |-> TRUE, bytes |-> <<i[1]>>]
    ELSE IF \A k \in 3..8 : i[k] = 0
         THEN [ok |-> TRUE, bytes |-> <<253>> \o SubSeq(i, 1, 2)]
    ELSE IF \A k \in 5..8 : i[k] = 0
         THEN [ok |-> TRUE, bytes |-> <<254>> \o SubSeq(i, 1, 4)]
    ELSE IF \E k \in 1..8 : i[k] # 255
         THEN [ok |-> TRUE, bytes |-> <<255>> \o i]
    ELSE [ok |-> FALSE, bytes |-> <<>>]

\* encoding.ReadVarInt on a reader over b that stands at pos: the uint64 read
\* and the reader's new position
ReadVarInt(b, pos) ==
    LET width == IF pos > Len(b) THEN 0
                 ELSE IF b[pos] = 253 THEN 2
                 ELSE IF b[pos] = 254 THEN 4
                 ELSE IF b[pos] = 255 THEN 8 ELSE 0
    IN  IF pos > Len(b) \/ pos + width > Len(b)
        THEN [ok |-> FALSE, val |-> LEOf(0, 8), pos |-> pos]
        ELSE [ok |-> TRUE,
              val |-> IF width = 0 THEN LEOf(b[pos], 8)
                      ELSE [k \in 1..8 |-> IF k <= width THEN b[pos + k] ELSE 0],
              pos |-> pos + 1 + width]

\* Script.Serialize: RawBytes behind the varint of their length
ScriptSerialize(cmds) ==
    LET raw[k \in 0..Len(cmds)] ==
            IF k = 0 THEN <<>>
            ELSE LET cmd == cmds[k]
                     dataLen == Len(cmd.Data)
                 IN  raw[k - 1] \o
                     (IF ~cmd.IsData THEN <<cmd.Opcode>>
                      ELSE IF dataLen <= 75 THEN <<dataLen>> \o cmd.Data
                      ELSE IF dataLen <= 255 THEN <<OP_PUSHDATA1, dataLen>> \o cmd.Data
                      ELSE IF dataLen <= 65535
                           THEN <<OP_PUSHDATA2>> \o LEOf(dataLen, 2) \o cmd.Data
                      ELSE <<OP_PUSHDATA4>> \o LEOf(dataLen, 4) \o cmd.Data)
        serialized == raw[Len(cmds)]
    IN  EncodeVarInt(LEOf(Len(serialized), 8)).bytes \o serialized

\* TxIn.Serialize
TxInSerialize(in) ==
    [k \in 1..Len(in.PrevTx) |-> in.PrevTx[Len(in.PrevTx) + 1 - k]]
        \o in.PrevIdx \o ScriptSerialize(in.ScriptSig) \o in.Sequence

\* TxOut.Serialize
TxOutSerialize(out) == out.Amount \o ScriptSerialize(out.ScriptPubKey)

\* Transaction.SerializeLegacy
SerializeLegacy(t) ==
    t.Version
        \o EncodeVarInt(LEOf(Len(t.Inputs), 8)).bytes
        \o Flatten([k \in DOMAIN t.Inputs |-> TxInSerialize(t.Inputs[k])])
        \o EncodeVarInt(LEOf(Len(t.Outputs), 8)).bytes
        \o Flatten([k \in DOMAIN t.Outputs |-> TxOutSerialize(t.Outputs[k])])
        \o t.Locktime

\* Transaction.SerializeSegwit
SerializeSegwit(t) ==
    LET witness(in) ==
            EncodeVarInt(LEOf(Len(in.Witness), 8)).bytes
                \o Flatten([j \in DOMAIN in.Witness |->
                              EncodeVarInt(LEOf(Len(in.Witness[j]), 8)).bytes
                                  \o in.Witness[j]])
    IN  <<0, 1>>
            \o t.Version
            \o EncodeVarInt(LEOf(Len(t.Inputs), 8)).bytes
            \o Flatten([k \in DOMAIN t.Inputs |-> TxInSerialize(t.Inputs[k])])
            \o EncodeVarInt(LEOf(Len(t.Outputs), 8)).bytes
            \o Flatten([k \in DOMAIN t.Outputs |-> TxOutSerialize(t.Outputs[k])])
            \o Flatten([k \in DOMAIN t.Inputs |-> witness(t.Inputs[k])])
            \o t.Locktime

\* Transaction.Serialize
Serialize(t) == IF t.IsSegwit THEN SerializeSegwit(t) ELSE SerializeLegacy(t)

\* ParseTxIn on a bytes.Reader over b that stands at pos: the input read and
\* the reader's new position
ParseTxIn(b, pos) ==
    IF pos + 35 > Len(b) THEN [ok |-> FALSE, pos |-> 0, v |-> <<>>]
    ELSE LET prevTx == [k \in 1..32 |-> b[pos + 32 - k]]
             prevIdx == SubSeq(b, pos + 32, pos + 35)
             isCoinbase == /\ prevIdx = <<255, 255, 255, 255>>
                           /\ \A k \in 1..32 : prevTx[k] = 0
             len == ReadVarInt(b, pos + 36)
             n == SmallVal(len.val)
             body == SubSeq(b, len.pos, len.pos + n - 1)
             \* ParseScript(r) for an ordinary input, the raw bytes as one
             \* data command for a coinbase input
             parsed == IF isCoinbase
                       THEN [ok |-> TRUE,
                             cmds |-> IF n = 0 THEN <<>> ELSE <<DataCmd(body)>>]
                       ELSE ParseScript(body, FALSE)
         IN  IF ~len.ok \/ len.val # LEOf(n, 8) \/ len.pos + n + 3 > Len(b)
                \/ ~parsed.ok
             THEN [ok |-> FALSE, pos |-> 0, v |-> <<>>]
             ELSE [ok |-> TRUE, pos |-> len.pos + n + 4,
                   v |-> [PrevTx |-> prevTx, PrevIdx |-> prevIdx,
                          ScriptSig |-> parsed.cmds,
                          Sequence |-> SubSeq(b, len.pos + n, len.pos + n + 3),
                          Witness |-> <<>>]]

\* ParseTxOut, likewise
ParseTxOut(b, pos) ==
    IF pos + 7 > Len(b) THEN [ok |-> FALSE, pos |-> 0, v |-> <<>>]
    ELSE LET len == ReadVarInt(b, pos + 8)
             n == SmallVal(len.val)
             scriptBytes == SubSeq(b, len.pos, len.pos + n - 1)
             parsed == ParseScript(scriptBytes, TRUE)
         IN  IF ~len.ok \/ len.val # LEOf(n, 8) \/ len.pos + n - 1 > Len(b)
             THEN [ok |-> FALSE, pos |-> 0, v |-> <<>>]
             ELSE [ok |-> TRUE, pos |-> len.pos + n,
                   v |-> [Amount |-> SubSeq(b, pos, pos + 7),
                          ScriptPubKey |-> IF n > 0 /\ parsed.ok
                                           THEN parsed.cmds ELSE <<>>,
                          rawScriptBytes |-> scriptBytes]]

\* the witness stack of one input in ParseSegwitTransaction, the reader at
\* pos: items := make([][]byte, numItems), then append for every item read;
\* Read fills what is left and fails only at the end of the reader
ParseWitness(b, pos) ==
    LET numItems == ReadVarInt(b, pos)
        count == SmallVal(numItems.val)
        item[j \in 0..count] ==
            IF j = 0 THEN [ok |-> TRUE, pos |-> numItems.pos,
                           v |-> [k \in 1..count |-> <<>>]]
            ELSE LET prev == item[j - 1]
                     len == ReadVarInt(b, prev.pos)
                     n == SmallVal(len.val)
                     got == IF len.pos + n - 1 <= Len(b) THEN n
                            ELSE Len(b) + 1 - len.pos
                 IN  IF ~prev.ok \/ ~len.ok \/ len.val # LEOf(n, 8)
                        \/ len.pos > Len(b)
                     THEN [ok |-> FALSE, pos |-> 0, v |-> <<>>]
                     ELSE [ok |-> TRUE, pos |-> len.pos + got,
                           v |-> Append(prev.v,
                                   [k \in 1..n |->
                                      IF k <= got THEN b[len.pos + k - 1] ELSE 0])]
    IN  IF ~numItems.ok \/ numItems.val # LEOf(count, 8) \/ count > Len(b)
        THEN [ok |-> FALSE, pos |-> 0, v |-> <<>>]
        ELSE item[count]

\* ParseTransaction on a bytes.Reader over b, with ParseLegacyTransaction
\* and ParseSegwitTransaction: the input count and the inputs, the output
\* count and the outputs, for SegWit the witness stacks, then the locktime.
\* A count too large for make is a panic; a count beyond the bytes left
\* ends in a read error.
ParseTransaction(b) ==
    LET segwit == b[5] = 0
        Err == [res |-> "err", t |-> <<>>]
        bad == [ok |-> FALSE, pos |-> 0, v |-> <<>>]
        count(len) == IF len.val = LEOf(SmallVal(len.val), 8)
                         /\ SmallVal(len.val) <= Len(b)
                      THEN SmallVal(len.val) ELSE Len(b)
        Locktime(txins, txouts, wit) ==
            IF ~wit.ok \/ wit.pos + 3 > Len(b) THEN Err
            ELSE [res |-> "ok",
                  t |-> [Version |-> SubSeq(b, 1, 4), Inputs |-> wit.v,
                         Outputs |-> txouts.v,
                         Locktime |-> SubSeq(b, wit.pos, wit.pos + 3),
                         IsSegwit |-> segwit]]
        Witnesses(txins, txouts) ==
            LET witness[i \in 0..Len(txins.v)] ==
                    IF i = 0 THEN [ok |-> TRUE, pos |-> txouts.pos, v |-> txins.v]
                    ELSE LET prev == witness[i - 1]
                             r == ParseWitness(b, prev.pos)
                         IN  IF ~prev.ok \/ ~r.ok THEN bad
                             ELSE [r EXCEPT !.v = [prev.v EXCEPT ![i].Witness = r.v]]
            IN  IF ~txouts.ok THEN Err
                ELSE Locktime(txins, txouts,
                              witness[IF segwit THEN Len(txins.v) ELSE 0])
        Outputs(txins, len) ==
            LET txouts[k \in 0..count(len)] ==
                    IF k = 0 THEN [ok |-> TRUE, pos |-> len.pos, v |-> <<>>]
                    ELSE LET prev == txouts[k - 1]
                             r == ParseTxOut(b, prev.pos)
                         IN  IF ~prev.ok \/ ~r.ok THEN bad
                             ELSE [r EXCEPT !.v = Append(prev.v, r.v)]
            IN  IF ~txins.ok \/ ~len.ok THEN Err
                ELSE IF IsNegative(len.val) THEN [res |-> "panic", t |-> <<>>]
                ELSE Witnesses(txins, txouts[count(len)])
        Inputs(len) ==
            LET txins[k \in 0..count(len)] ==
                    IF k = 0 THEN [ok |-> TRUE, pos |-> len.pos, v |-> <<>>]
                    ELSE LET prev == txins[k - 1]
                             r == ParseTxIn(b, prev.pos)
                         IN  IF ~prev.ok \/ ~r.ok THEN bad
                             ELSE [r EXCEPT !.v = Append(prev.v, r.v)]
            IN  IF ~len.ok THEN Err
                ELSE IF IsNegative(len.val) THEN [res |-> "panic", t |-> <<>>]
                ELSE Outputs(txins[count(len)],
                             ReadVarInt(b, txins[count(len)].pos))
    IN  IF Len(b) < 5 \/ (segwit /\ Len(b) < 6) THEN Err
        ELSE Inputs(ReadVarInt(b, IF segwit THEN 7 ELSE 5))

\* NewNetworkEnvelope(command, payload, testNet).  A uint32 field holds its
\* value as four little-endian bytes: MAINNET_MAGIC 0xf9beb4d9 is
\* <<217, 180, 190, 249>>, TESTNET_MAGIC 0x0b110907 is <<7, 9, 17, 11>>.
NewNetworkEnvelope(command, payload, testNet) ==
    IF Len(command) > 12 THEN [ok |-> FALSE, e |-> <<>>]
    ELSE [ok |-> TRUE,
          e |-> [Magic |-> IF testNet THEN <<7, 9, 17, 11>>
                           ELSE <<217, 180, 190, 249>>,
                 Command |-> command,
                 PayloadLen |-> LEOf(Len(payload), 4),
                 PayloadChecksum |-> SubSeq(Hash256(payload), 1, 4),
                 Payload |-> payload]]

\* NetworkEnvelope.Serialize, with commandBytes: the magic goes out
\* big-endian, the payload length and the checksum little-endian
EnvelopeSerialize(n) ==
    [k \in 1..4 |-> n.Magic[5 - k]]
        \o [k \in 1..12 |-> IF k <= Len(n.Command) THEN n.Command[k] ELSE 0]
        \o n.PayloadLen
        \o n.PayloadChecksum
        \o [k \in 1..SmallVal(n.PayloadLen) |->
              IF k <= Len(n.Payload) THEN n.Payload[k] ELSE 0]

\* ParseNetworkEnvelope on a reader over b: every field is read
\* little-endian, the command loses its trailing zero bytes
ParseNetworkEnvelope(b) ==
    LET payloadLen == SubSeq(b, 17, 20)
        checksum == SubSeq(b, 21, 24)
        payload == SubSeq(b, 25, 24 + SmallVal(payloadLen))
        commandLen == IF \A k \in 5..16 : b[k] = 0 THEN 0
                      ELSE (CHOOSE k \in 5..16 :
                              b[k] # 0 /\ \A j \in (k + 1)..16 : b[j] = 0) - 4
    IN  IF Len(b) < 24 \/ payloadLen[4] # 0 \/ Len(b) < 24 + SmallVal(payloadLen)
           \/ checksum # SubSeq(Hash256(payload), 1, 4)
        THEN [ok |-> FALSE, e |-> <<>>]
        ELSE [ok |-> TRUE,
              e |-> [Magic |-> SubSeq(b, 1, 4),
                     Command |-> SubSeq(b, 5, 4 + commandLen),
                     PayloadLen |-> payloadLen,
                     PayloadChecksum |-> checksum,
                     Payload |-> payload]]

\* ParseGetBlockTransactionMessage on a reader over b.  An int is 64 bits
\* wide: int(diff) keeps the bits of the uint64 and the sum wraps.  The
\* prefilled section of ParseCompactBlockMessage computes its indexes with the
\* same statement.
ParseGetBlockTransactionMessage(b) ==
    LET idxLen == ReadVarInt(b, 33)
        count == IF idxLen.val = LEOf(SmallVal(idxLen.val), 8)
                    /\ SmallVal(idxLen.val) <= Len(b)
                 THEN SmallVal(idxLen.val) ELSE Len(b)
        idxs[i \in 0..count] ==
            IF i = 0 THEN [ok |-> TRUE, pos |-> idxLen.pos, v |-> <<>>,
                           prevIndex |-> LENeg(LEOf(1, 8))]
            ELSE LET p == idxs[i - 1]
                     diff == ReadVarInt(b, p.pos)
                     actualIndex == LEAdd(LEAdd(p.prevIndex, diff.val), LEOf(1, 8))
                 IN  IF ~p.ok \/ ~diff.ok THEN [p EXCEPT !.ok = FALSE]
                     ELSE [ok |-> TRUE, pos |-> diff.pos,
                           v |-> Append(p.v, actualIndex),
                           prevIndex |-> actualIndex]
    IN  IF Len(b) < 32 \/ ~idxLen.ok THEN [res |-> "err", msg |-> <<>>]
        ELSE IF IsNegative(idxLen.val) THEN [res |-> "panic", msg |-> <<>>]
        ELSE IF ~idxs[count].ok THEN [res |-> "err", msg |-> <<>>]
        ELSE [res |-> "ok",
              msg |-> [BlockHash |-> SubSeq(b, 1, 32), Indexes |-> idxs[count].v]]

\* GetBlockTransactionMessage.Serialize
GetBlockTransactionSerialize(btm) ==
    LET n == Len(btm.Indexes)
        out[i \in 0..n] ==
            IF i = 0
            THEN [ok |-> TRUE,
                  bytes |-> btm.BlockHash \o EncodeVarInt(LEOf(n, 8)).bytes]
            ELSE LET prevIndex == IF i = 1 THEN LENeg(LEOf(1, 8))
                                  ELSE btm.Indexes[i - 1]
                     diff == LEAdd(LEAdd(btm.Indexes[i], LENeg(prevIndex)),
                                   LENeg(LEOf(1, 8)))
                     diffBytes == EncodeVarInt(diff)
                 IN  IF ~out[i - 1].ok \/ ~diffBytes.ok
                     THEN [ok |-> FALSE, bytes |-> <<>>]
                     ELSE [ok |-> TRUE,
                           bytes |-> out[i - 1].bytes \o diffBytes.bytes]
    IN  out[n]

\* the difficulty adjustment period, in seconds
TWO_WEEKS == 1209600

\* Block.CalcNewBits(firstBlock, lastBlock), with bitsToTarget and
\* TargetToBits.  TimeStamp is a uint32, so the subtraction wraps before it is
\* widened to int64.  The targets of the model are below 2^31, far below the
\* maximum target 0xffff * 256^26 that the result is compared with.
CalcNewBits(firstBlock, lastBlock) ==
    LET bitsToTarget(bits) ==
            IF bits \div 16777216 <= 3
            THEN (bits % 16777216) \div (256 ^ (3 - bits \div 16777216))
            ELSE (bits % 16777216) * (256 ^ (bits \div 16777216 - 3))
        TargetToBits(target) ==
            LET n == IF target = 0 THEN 0
                     ELSE CHOOSE k \in 1..4 : target < 256 ^ k /\ target >= 256 ^ (k - 1)
                raw == [j \in 1..n |-> (target \div (256 ^ (n - j))) % 256]
                rawBytes == IF n > 0 /\ raw[1] > 127 THEN <<0>> \o raw ELSE raw
                byte(j) == IF Len(rawBytes) >= j THEN rawBytes[j] ELSE 0
            IN  Len(rawBytes) * 16777216 + byte(1) * 65536 + byte(2) * 256 + byte(3)
        elapsed == LEAdd(lastBlock.TimeStamp, LENeg(firstBlock.TimeStamp))
        timeDiff == IF LELess(LEOf(TWO_WEEKS * 4, 4), elapsed) THEN TWO_WEEKS * 4
                    ELSE IF LELess(elapsed, LEOf(TWO_WEEKS \div 4, 4))
                         THEN TWO_WEEKS \div 4
                    ELSE SmallVal(elapsed)
    IN  TargetToBits((bitsToTarget(lastBlock.Bits) * timeDiff) \div TWO_WEEKS)

\* the transactions serialized: legacy and SegWit, with ordinary and coinbase
\* inputs, empty and non-empty scripts and witness stacks
Transactions ==
    LET In(segwit) ==
            {[PrevTx |-> prev[1], PrevIdx |-> prev[2], ScriptSig |-> scriptSig,
              Sequence |-> <<254, 255, 255, 255>>, Witness |-> witness] :
               prev \in {<<[k \in 1..32 |-> k], LEOf(0, 4)>>,
                         <<[k \in 1..32 |-> 0], <<255, 255, 255, 255>>>>},
               scriptSig \in {<<>>, <<DataCmd(<<3, 4>>)>>},
               witness \in IF segwit THEN {<<>>, <<<<9>>>>} ELSE {<<>>}}
        Out == {[Amount |-> LEOf(5, 8), ScriptPubKey |-> scriptPubKey,
                 rawScriptBytes |-> <<>>] :
                  scriptPubKey \in {<<>>, <<OpCmd(OP_DUP)>>}}
    IN  UNION {[Version : {LEOf(2, 4)}, Inputs : [1..ni -> In(segwit)],
                Outputs : [1..no -> Out], Locktime : {LEOf(500, 4)},
                IsSegwit : {segwit}] :
                  ni \in 1..MaxInputs, no \in 1..MaxOutputs, segwit \in BOOLEAN}

\* the calls: PopulateTree on a tree of 1..MaxLeaves leaves, with flag bytes
\* and hashes up to one more than the largest walk uses; Serialize on a
\* transaction, and ParseTransaction on the bytes a transaction has on the
\* wire (for SegWit the version, then marker and flag, as ParseTransaction
\* reads them at part_007:236-251)
InitCalls ==
    /\ call \in
          {[fn |-> "PopulateTree", done |-> FALSE, total |-> total,
            flagBits |-> flagBits, hashes |-> [k \in 1..nh |-> <<k>>],
            ret |-> <<>>] :
             total \in 1..MaxLeaves, nh \in 0..(MaxLeaves + 1),
             flagBits \in UNION {[1..nf -> {0, 1}] : nf \in 0..(2 * MaxLeaves)}}
          \cup
          {[fn |-> "Transaction",
            vals |-> <<[kind |-> "tx", tx |-> x, bytes |-> <<>>]>>] :
             x \in Transactions}
          \cup
          {[fn |-> "Transaction",
            vals |-> <<[kind |-> "bytes", tx |-> <<>>,
                        bytes |-> IF x.IsSegwit
                                  THEN x.Version \o <<0, 1>>
                                       \o SubSeq(SerializeSegwit(x), 7,
                                                 Len(SerializeSegwit(x)))
                                  ELSE SerializeLegacy(x)]>>] :
             x \in Transactions}
          \cup
          {[fn |-> "Envelope", command |-> command, payload |-> payload,
            testNet |-> testNet, vals |-> <<>>] :
             command \in {<<>>, <<116, 120>>, <<116, 0>>, [k \in 1..12 |-> 96 + k],
                          [k \in 1..13 |-> 96 + k]},
             payload \in {<<>>, <<1>>, <<1, 2>>}, testNet \in BOOLEAN}
          \cup
          {[fn |-> "VarInt", v |-> v, vals |-> <<>>] :
             v \in {LEOf(0, 8), LEOf(252, 8), LEOf(253, 8), LEOf(65535, 8),
                    LEOf(65536, 8), <<255, 255, 255, 255, 0, 0, 0, 0>>,
                    <<0, 0, 0, 0, 1, 0, 0, 0>>,
                    <<254, 255, 255, 255, 255, 255, 255, 255>>,
                    <<255, 255, 255, 255, 255, 255, 255, 255>>}}
          \cup
          {[fn |-> "CalcNewBits", done |-> FALSE, ret |-> 0,
            firstBlock |-> [TimeStamp |-> first, Bits |-> bits],
            lastBlock |-> [TimeStamp |-> last, Bits |-> bits]] :
             first, last \in {LEOf(0, 4), LEOf(100, 4), LEOf(302500, 4),
                              LEOf(1209600, 4), LEOf(5000000, 4),
                              <<0, 0, 0, 128>>, <<255, 255, 255, 255>>},
             bits \in {3 * 16777216 + 291, 2 * 16777216 + 65280}}
          \cup
          {[fn |-> "GetBlockTxn",
            vals |-> <<[kind |-> "msg",
                        msg |-> [BlockHash |-> [k \in 1..32 |-> 7],
                                 Indexes |-> idxs]]>>] :
             idxs \in UNION {[1..n -> {LEOf(0, 8), LEOf(1, 8), LEOf(300, 8)}] :
                               n \in 0..MaxBlockTxns}}
          \cup
          {[fn |-> "GetBlockTxn",
            vals |-> <<[kind |-> "bytes",
                        bytes |-> [k \in 1..32 |-> 7] \o <<idxLen>>
                                  \o d[1] \o d[2]]>>] :
             idxLen \in 0..MaxBlockTxns,
             d \in [1..2 -> {<<>>, <<0>>, <<2>>, <<253, 44, 1>>,
                             <<255, 255, 255, 255, 255, 255, 255, 255, 127>>,
                             <<255, 255, 255, 255, 255, 255, 255, 255, 255>>}]}
    /\ IdleScript /\ IdleMempool /\ IdleNode /\ IdleTx /\ IdleRecon

PopulateTreeCall ==
    /\ call # <<>>
    /\ call.fn = "PopulateTree" /\ ~call.done
    /\ call' = [call EXCEPT !.done = TRUE,
                            !.ret = PopulateTree(call.total, call.flagBits, call.hashes)]
    /\ UNCHANGED <<seVars, mpVars, ndVars, txVars, cbVars>>

\* tx.Serialize() on the transaction last parsed or given
SerializeCall ==
    /\ call # <<>>
    /\ call.fn = "Transaction" /\ Len(call.vals) < 3
    /\ call.vals[Len(call.vals)].kind = "tx"
    /\ call' = [call EXCEPT !.vals = Append(@,
                   [kind |-> "bytes", tx |-> <<>>,
                    bytes |-> Serialize(call.vals[Len(call.vals)].tx)])]
    /\ UNCHANGED <<seVars, mpVars, ndVars, txVars, cbVars>>

\* ParseTransaction(bytes.NewReader(b)) on the bytes last serialized or given
ParseTransactionCall ==
    /\ call # <<>>
    /\ call.fn = "Transaction" /\ Len(call.vals) < 3
    /\ call.vals[Len(call.vals)].kind = "bytes"
    /\ LET r == ParseTransaction(call.vals[Len(call.vals)].bytes)
       IN  call' = [call EXCEPT !.vals = Append(@,
                      [kind |-> IF r.res = "ok" THEN "tx" ELSE r.res,
                       tx |-> r.t, bytes |-> <<>>])]
    /\ UNCHANGED <<seVars, mpVars, ndVars, txVars, cbVars>>

\* NewNetworkEnvelope, then e.Serialize(), then ParseNetworkEnvelope on a
\* reader over those bytes
EnvelopeCall ==
    /\ call # <<>>
    /\ call.fn = "Envelope" /\ Len(call.vals) < 3
    /\ \A k \in DOMAIN call.vals : call.vals[k].ok
    /\ call' = [call EXCEPT !.vals = Append(@,
                   IF Len(call.vals) = 0
                   THEN NewNetworkEnvelope(call.command, call.payload, call.testNet)
                   ELSE IF Len(call.vals) = 1
                   THEN [ok |-> TRUE, e |-> EnvelopeSerialize(call.vals[1].e)]
                   ELSE ParseNetworkEnvelope(call.vals[2].e))]
    /\ UNCHANGED <<seVars, mpVars, ndVars, txVars, cbVars>>

\* btm.Serialize() on a message, ParseGetBlockTransactionMessage on a reader
\* over wire bytes
GetBlockTransactionCall ==
    /\ call # <<>>
    /\ call.fn = "GetBlockTxn" /\ Len(call.vals) < 3
    /\ LET last == call.vals[Len(call.vals)]
       IN  \/ /\ last.kind = "msg"
              /\ LET r == GetBlockTransactionSerialize(last.msg)
                 IN  call' = [call EXCEPT !.vals = Append(@,
                                [kind |-> IF r.ok THEN "bytes" ELSE "err",
                                 bytes |-> r.bytes])]
           \/ /\ last.kind = "bytes"
              /\ LET r == ParseGetBlockTransactionMessage(last.bytes)
                 IN  call' = [call EXCEPT !.vals = Append(@,
                                [kind |-> IF r.res = "ok" THEN "msg" ELSE r.res,
                                 msg |-> r.msg])]
    /\ UNCHANGED <<seVars, mpVars, ndVars, txVars, cbVars>>

\* b.CalcNewBits(firstBlock, lastBlock)
CalcNewBitsCall ==
    /\ call # <<>>
    /\ call.fn = "CalcNewBits" /\ ~call.done
    /\ call' = [call EXCEPT !.done = TRUE,
                            !.ret = CalcNewBits(call.firstBlock, call.lastBlock)]
    /\ UNCHANGED <<seVars, mpVars, ndVars, txVars, cbVars>>

\* EncodeVarInt(v), then ReadVarInt on a reader over the bytes it returned
VarIntCall ==
    /\ call # <<>>
    /\ call.fn = "VarInt" /\ Len(call.vals) < 2
    /\ \A k \in DOMAIN call.vals : call.vals[k].ok
    /\ call' = [call EXCEPT !.vals = Append(@,
                   IF Len(call.vals) = 0 THEN EncodeVarInt(call.v)
                   ELSE ReadVarInt(call.vals[1].bytes, 1))]
    /\ UNCHANGED <<seVars, mpVars, ndVars, txVars, cbVars>>

NextCalls ==
    \/ VarIntCall
    \/ CalcNewBitsCall
    \/ PopulateTreeCall
    \/ SerializeCall
    \/ ParseTransactionCall
    \/ EnvelopeCall
    \/ GetBlockTransactionCall

SpecCalls == InitCalls /\ [][NextCalls]_vars

\* C13: PopulateTree succeeds exactly when the walk neither ran out of flag
\* bits or hashes nor left a hash or a flag bit unused.
C13_AllConsumed ==
    (call # <<>> /\ call.fn = "PopulateTree" /\ call.done) =>
        (call.ret.err = "" <=>
            /\ call.ret.err \notin {"ran out of flags bits", "ran out of hashes"}
            /\ call.ret.hashIdx = Len(call.hashes)
            /\ call.ret.flagIdx = Len(call.flagBits))

\* the exported fields of two transactions agree
SameTransaction(x, y) ==
    /\ x.Version = y.Version /\ x.Locktime = y.Locktime /\ x.IsSegwit = y.IsSegwit
    /\ Len(x.Inputs) = Len(y.Inputs) /\ Len(x.Outputs) = Len(y.Outputs)
    /\ \A k \in DOMAIN x.Inputs :
          /\ k \in DOMAIN y.Inputs
          /\ x.Inputs[k].PrevTx = y.Inputs[k].PrevTx
          /\ x.Inputs[k].PrevIdx = y.Inputs[k].PrevIdx
          /\ x.Inputs[k].ScriptSig = y.Inputs[k].ScriptSig
          /\ x.Inputs[k].Sequence = y.Inputs[k].Sequence
          /\ x.Inputs[k].Witness = y.Inputs[k].Witness
    /\ \A k \in DOMAIN x.Outputs :
          /\ k \in DOMAIN y.Outputs
          /\ x.Outputs[k].Amount = y.Outputs[k].Amount
          /\ x.Outputs[k].ScriptPubKey = y.Outputs[k].ScriptPubKey

\* C14: ParseTransaction(Serialize(x)) is x for legacy and SegWit
\* transactions, witness items included, and Serialize(ParseTransaction(b))
\* is b for the bytes of a transaction on the wire, coinbase included.
C14_RoundTrip ==
    (call # <<>> /\ call.fn = "Transaction" /\ Len(call.vals) >= 2) =>
        /\ call.vals[2].kind \in {"tx", "bytes"}
        /\ Len(call.vals) = 3 =>
              IF call.vals[1].kind = "tx"
              THEN /\ call.vals[3].kind = "tx"
                   /\ SameTransaction(call.vals[3].tx, call.vals[1].tx)
              ELSE call.vals[3].bytes = call.vals[1].bytes

\* C15: SerializeSegwit emits the version, the marker 0x00, the flag 0x01,
\* the input count, inputs, outputs, witness stacks and the locktime, which
\* is the layout ParseTransaction takes for SegWit.
C15_SegwitLayout ==
    (call # <<>> /\ call.fn = "Transaction" /\ Len(call.vals) >= 2
       /\ call.vals[1].kind = "tx" /\ call.vals[1].tx.IsSegwit) =>
        LET x == call.vals[1].tx
            b == call.vals[2].bytes
        IN  /\ SubSeq(b, 1, 4) = x.Version
            /\ b[5] = 0 /\ b[6] = 1
            /\ b[7] = Len(x.Inputs)
            /\ SubSeq(b, Len(b) - 3, Len(b)) = x.Locktime
            /\ ParseTransaction(b).res = "ok"
            /\ ParseTransaction(b).t.IsSegwit

\* C16: for every envelope e that NewNetworkEnvelope makes (a command of at
\* most 12 bytes, any payload) ParseNetworkEnvelope(e.Serialize()) succeeds
\* with the magic, command, payload length, checksum and payload of e.
C16_EnvelopeRoundTrip ==
    (call # <<>> /\ call.fn = "Envelope" /\ Len(call.vals) = 3) =>
        /\ call.vals[3].ok
        /\ call.vals[3].e.Magic = call.vals[1].e.Magic
        /\ call.vals[3].e.Command = call.vals[1].e.Command
        /\ call.vals[3].e.PayloadLen = call.vals[1].e.PayloadLen
        /\ call.vals[3].e.PayloadChecksum = call.vals[1].e.PayloadChecksum
        /\ call.vals[3].e.Payload = call.vals[1].e.Payload

\* C17: the index list decoded from the differential encoding is
\* non-negative and strictly increasing for every varint differential
\* 0..2^64-1, and it is the original list when the bytes came from the
\* matching Serialize.
C17_IndexesIncreasing ==
    (call # <<>> /\ call.fn = "GetBlockTxn") =>
        \A k \in 2..Len(call.vals) :
            (call.vals[k].kind = "msg" /\ call.vals[k - 1].kind = "bytes") =>
                LET idxs == call.vals[k].msg.Indexes
                IN  /\ \A i \in DOMAIN idxs : ~IsNegative(idxs[i])
                    /\ \A i \in DOMAIN idxs : i > 1 => SLess(idxs[i - 1], idxs[i])
                    /\ k = 3 => idxs = call.vals[1].msg.Indexes

-----------------------------------------------------------------------------
(* Lock-time and multi-signature opcodes *)

\* the engine is about to run the opcode op
About(op) ==
    /\ se.res = "run"
    /\ se.pc < Len(se.commands)
    /\ se.commands[se.pc + 1] = OpCmd(op)

\* C18: OP_CHECKLOCKTIMEVERIFY succeeds iff the stack is non-empty, its top
\* decodes to a non-negative v, the sequence is not 0xFFFFFFFF, v and the
\* locktime are on the same side of 500,000,000 and locktime >= v; the top
\* item stays on the stack.
C18_LocktimeVerify ==
    [][About(OP_CHECKLOCKTIMEVERIFY) =>
         /\ (se'.res = "run") <=>
               /\ Len(se.stack) > 0
               /\ LET v == DecodeNum(se.stack[Len(se.stack)])
                      locktime == se.locktime \o <<0, 0, 0, 0>>
                      limit == LEOf(500000000, 8)
                  IN  /\ ~SLess(v, LEOf(0, 8))
                      /\ se.sequence # <<255, 255, 255, 255>>
                      /\ SLess(v, limit) <=> SLess(locktime, limit)
                      /\ ~SLess(locktime, v)
         /\ se'.stack = se.stack]_vars

\* OP_CHECKLOCKTIMEVERIFY has succeeded on the timestamp 500,000,000 under
\* the locktime 600,000,000 and has left the number on the stack
C18_Witness ==
    /\ se.pc = 2 /\ se.res = "run"
    /\ se.commands[2] = OpCmd(OP_CHECKLOCKTIMEVERIFY)
    /\ se.stack = <<<<0, 101, 205, 29>>>>
    /\ se.locktime = <<0, 70, 195, 35>>

\* C19: OP_CHECKSEQUENCEVERIFY fails on an empty stack or a negative v;
\* otherwise it succeeds at once when bit 31 of v is set; otherwise it
\* succeeds iff bit 31 of the sequence is clear, bit 22 of v and of the
\* sequence agree and (sequence & 0xFFFF) >= (v & 0xFFFF).
C19_SequenceVerify ==
    [][About(OP_CHECKSEQUENCEVERIFY) =>
         LET v == DecodeNum(se.stack[Len(se.stack)])
             Bit(x, k) == (x[(k \div 8) + 1] \div (2 ^ (k % 8))) % 2
             Low16(x) == x[1] + 256 * x[2]
         IN  IF Len(se.stack) = 0 \/ SLess(v, LEOf(0, 8)) THEN se'.res = "false"
             ELSE IF Bit(v, 31) = 1 THEN se'.res = "run"
             ELSE (se'.res = "run") <=>
                     /\ Bit(se.sequence, 31) = 0
                     /\ Bit(v, 22) = Bit(se.sequence, 22)
                     /\ Low16(se.sequence) >= Low16(v)]_vars

\* OP_CHECKSEQUENCEVERIFY has succeeded on the comparison of the low 16 bits
C19_Witness ==
    /\ se.pc = 2 /\ se.res = "run"
    /\ se.commands[2] = OpCmd(OP_CHECKSEQUENCEVERIFY)
    /\ se.stack = <<<<5, 0, 64>>>>
    /\ se.sequence = <<5, 0, 64, 0>>

\* the stack holds all that OP_CHECKMULTISIG pops: from the top the count n,
\* n public keys, the count m, m signatures and one more element
Multisig ==
    LET L == Len(se.stack)
        n == IF L > 0 THEN DecodeNum(se.stack[L]) ELSE LEOf(0, 8)
        ni == SmallVal(n)
        m == IF n = LEOf(ni, 8) /\ L >= ni + 2
             THEN DecodeNum(se.stack[L - ni - 1]) ELSE LEOf(0, 8)
        mi == SmallVal(m)
        holds == /\ L > 0
                 /\ n = LEOf(ni, 8) /\ L >= ni + 2
                 /\ m = LEOf(mi, 8) /\ L >= ni + mi + 3
    IN  IF ~holds THEN [holds |-> FALSE]
        ELSE [holds |-> TRUE,
              keys |-> [j \in 1..ni |-> se.stack[L - ni - 1 + j]],
              sigs |-> [i \in 1..mi |-> se.stack[L - ni - mi - 2 + i]],
              rest |-> SubSeq(se.stack, 1, L - ni - mi - 3)]

\* every signature verifies against a key of its own, the keys in the order of
\* the signatures
Matchable(keys, sigs) ==
    \E f \in [DOMAIN sigs -> DOMAIN keys] :
        /\ \A i, j \in DOMAIN sigs : i < j => f[i] < f[j]
        /\ \A i \in DOMAIN sigs : checkSigHelper(keys[f[i]], sigs[i])

\* C20: OP_CHECKMULTISIG pops n, n public keys, m, m signatures and one extra
\* element and pushes true iff every one of the m signatures verifies against
\* a distinct public key in the same relative order; otherwise it pushes false.
C20_MultiSig ==
    [][(About(OP_CHECKMULTISIG) /\ Multisig.holds) =>
         /\ se'.res = "run"
         /\ se'.stack = Append(Multisig.rest,
                               IF Matchable(Multisig.keys, Multisig.sigs)
                               THEN <<1>> ELSE <<0>>)]_vars

\* OP_CHECKMULTISIG has pushed true for two signatures and three keys
C20_Witness ==
    /\ se.pc = 9 /\ se.pc = Len(se.commands) /\ se.res = "run"
    /\ se.commands[9] = OpCmd(OP_CHECKMULTISIG)
    /\ se.commands[8] = DataCmd(<<3>>)
    /\ se.commands[4] = DataCmd(<<2>>)
    /\ se.stack = <<<<1>>>>

-----------------------------------------------------------------------------
(* Script templates *)

\* C21: when the current command and the two after it form
\* OP_HASH160 <20 bytes> OP_EQUAL, the engine hashes the top stack item,
\* compares it with the 20-byte value and appends the commands parsed from the
\* item only if the hashes are equal; on an empty stack, a hash mismatch or an
\* unparsable redeem script Execute returns false and no redeem-script command
\* is executed.
C21_RedeemScript ==
    [][(/\ se.res = "run"
        /\ se.pc + 3 <= Len(se.commands)
        /\ se.commands[se.pc + 1].Opcode = OP_HASH160
        /\ Len(se.commands[se.pc + 2].Data) = 20
        /\ se.commands[se.pc + 3].Opcode = OP_EQUAL) =>
         IF /\ Len(se.stack) > 0
            /\ Hash160(se.stack[Len(se.stack)]) = se.commands[se.pc + 2].Data
            /\ ParseScript(se.stack[Len(se.stack)], FALSE).ok
         THEN /\ se'.res = "run"
              /\ se'.pc = se.pc + 3
              /\ se'.commands =
                    se.commands \o ParseScript(se.stack[Len(se.stack)], FALSE).cmds
         ELSE /\ se'.res = "false"
              /\ se'.commands = se.commands]_vars

\* the P2SH pattern has been run and the redeem script's commands were appended
C21_Witness ==
    /\ se.res = "run"
    /\ se.pc = 4
    /\ se.commands[2].Opcode = OP_HASH160 /\ se.commands[4].Opcode = OP_EQUAL
    /\ Len(se.commands) > 4

-----------------------------------------------------------------------------
(* The node's goroutines *)

\* C22: the number of handler invocations running at the same time never
\* exceeds a fixed bound, however many envelopes with a registered handler
\* arrive while earlier invocations still run.  A bound that is fixed lies
\* below the number of envelopes of some flood; here the flood is the
\* MaxPeerMsgs envelopes the peer sends.
C22_HandlersBounded ==
    Cardinality({h \in gor.handlerGo : h.pc = "running"}) < MaxPeerMsgs

\* C24: every message for which Send returned nil is written to the
\* connection unless a write fails; once the send loop has stopped or the node
\* is closed, Send returns an error and does not accept the message.
C24_SendAfterStop ==
    [][(sn.done \/ gor.sendLoop = "exit")
          => Len(sn'.outgoing) <= Len(sn.outgoing)]_vars

\* C25: the handler table is never written by OnMessage while the dispatch
\* loop reads it: no registration, those of NewSimpleNode after the loops
\* were started included, can take place at the moment of a dispatch-loop
\* lookup.
C25_RegistrationsOrdered == ~(ENABLED OnMessage /\ ENABLED MessageLoop)

\* C26: an envelope that fails checksum validation is discarded without
\* ending the session: while the node and the peer keep the connection open,
\* the read loop still runs for the envelopes that arrive after it.
C26_SessionSurvivesBadChecksum ==
    (~sn.done /\ ~conn.peerClosed /\ ~conn.closed /\ conn.wire # <<>>)
        => gor.readLoop.pc # "exit"

-----------------------------------------------------------------------------
(* Compact blocks: indexes and sharing *)

\* C23: for every message ParseCompactBlockMessage accepts, ReconstructBlock
\* returns a block, a missing list or an error and never indexes outside the
\* transaction slice, also when a prefilled index is negative or not smaller
\* than the number of short ids plus the number of prefilled transactions.
C23_IndexesInRange ==
    recon # <<>> => (recon.first.res # "panic" /\ recon.second.res # "panic")

\* C28: the block ReconstructBlock returns is independent of its input: the
\* call leaves the message, msg.Header and its transaction hashes included,
\* unchanged, and a later call on the same message does not alter the block
\* an earlier call returned.
C28_BlockIndependent ==
    recon # <<>> =>
        /\ recon.blocks[recon.msg.Header].TxHashes = <<>>
        /\ recon.first.res = "ok" =>
              recon.blocks[recon.first.block].TxHashes = recon.first.TxHashes

-----------------------------------------------------------------------------
(* Difficulty and varints *)

\* C29: CalcNewBits uses the elapsed time last.timestamp - first.timestamp
\* clamped to [TWO_WEEKS/4, 4*TWO_WEEKS] for every pair of 32-bit timestamps;
\* a pair with last.timestamp < first.timestamp clamps to TWO_WEEKS/4.  On the
\* targets 0x123 and 0xff the new target is target * elapsed / TWO_WEEKS and
\* the bits are its compact form.
C29_ElapsedClamped ==
    (call # <<>> /\ call.fn = "CalcNewBits" /\ call.done) =>
        LET first == call.firstBlock.TimeStamp
            last == call.lastBlock.TimeStamp
            target == IF call.lastBlock.Bits = 3 * 16777216 + 291 THEN 291 ELSE 255
            lower == LELess(last, first)
                        \/ LELess(LEAdd(last, LENeg(first)), LEOf(302400, 4))
            upper == ~LELess(last, first)
                        /\ LELess(LEOf(4838400, 4), LEAdd(last, LENeg(first)))
            elapsed == IF lower THEN 302400
                       ELSE IF upper THEN 4838400
                       ELSE SmallVal(LEAdd(last, LENeg(first)))
            newTarget == (target * elapsed) \div 1209600
        \* compact form of a target below 0x8000: one byte below 0x80, else two
        IN  call.ret = IF newTarget < 128 THEN 16777216 + newTarget * 65536
                       ELSE 2 * 16777216 + newTarget * 256

\* C30: for every 64-bit value v, 0 <= v <= 2^64-1, EncodeVarInt(v) succeeds
\* with the encoding of minimum width for v (1, 3, 5 or 9 bytes) and
\* ReadVarInt on that encoding returns v.
C30_VarIntRoundTrip ==
    (call # <<>> /\ call.fn = "VarInt") =>
        /\ Len(call.vals) >= 1 =>
              /\ call.vals[1].ok
              /\ Len(call.vals[1].bytes) =
                    IF \A k \in 2..8 : call.v[k] = 0 THEN (IF call.v[1] < 253 THEN 1 ELSE 3)
                    ELSE IF \A k \in 3..8 : call.v[k] = 0 THEN 3
                    ELSE IF \A k \in 5..8 : call.v[k] = 0 THEN 5
                    ELSE 9
        /\ Len(call.vals) = 2 =>
              /\ call.vals[2].ok
              /\ call.vals[2].val = call.v

====
